---- MODULE Spec2Model ----
(***************************************************************************)
(* Model of tools/generate_building_hooks.py: the tokenizer, the block     *)
(* parser, the raw-text locator, the classifier and the emitters of the    *)
(* Estates Pay Building Maintenance generator.                             *)
(*                                                                         *)
(* A text is a sequence of characters (one-character strings).  A token    *)
(* is what tokenize yields: a Python str, here the sequence of its         *)
(* characters.  The tokens carry no tag: the token of the quoted text "{"  *)
(* and the token of an opening brace are the same value <<"{">>.           *)
(* In the runs of the loaders, the classifier and the emitters the texts   *)
(* are built from whole words: a word is one symbol of the text, between   *)
(* the real blanks, braces and '=' characters, so that  tokenize, the      *)
(* locator and the regular expressions of inject_on_built_hook run on it   *)
(* as they run on characters.                                              *)
(*                                                                         *)
(* A parsed value is one of                                                *)
(*   [t |-> "str",  s |-> token]            a Python str                   *)
(*   [t |-> "flag"]                         the Python value True          *)
(*   [t |-> "dict", d |-> entries, occ |-> occurrences]   an OrderedDict   *)
(*   [t |-> "list", l |-> values]           a Python list                  *)
(* An OrderedDict is the sequence of its entries [k |-> key, v |-> value]  *)
(* in insertion order.  The field occ of a dict is a history record, not   *)
(* program state: the (key, value) pairs in the order the parser stored    *)
(* them in that scope.                                                     *)
(*                                                                         *)
(* Indices are 1-based here and 0-based in the source: the source's        *)
(* `idx < len(tokens)` reads `idx <= Len(tokens)`.                         *)
(***************************************************************************)
EXTENDS Integers, Sequences, FiniteSets, TLC

VARIABLES
    pc,         \* position of the run: which function has returned
    text,       \* the file's text
    toks,       \* list(tokenize(text)) of parse_file
    doc,        \* the OrderedDict parse_file returns (its entries)
    occ,        \* history: the (key, value) pairs parse_file stored, in order
    struct,     \* history: indices of the tokens the parser read as '=', '{' or '}'
    tokq,       \* history: tokq[i] iff tokenize took toks[i] from a quoted string
    target,     \* the building_name given to read_raw_building_text
    span,       \* what read_raw_building_text returned
    files,      \* the files of BUILDING_DIR in sorted order: name, text
    pms,        \* pms of main
    buildings,  \* buildings of main
    qualifying, \* qualifying of main
    all_pm_goods, \* all_pm_goods of main
    inject_code,  \* inject_code of main: the blocks generate_inject wrote
    replace_code, \* replace_code of main: the blocks generate_replace wrote
    io_defs,      \* io_defs of main: what generate_io_definitions wrote
    init_effects, \* init_effects of main: what generate_init_effects wrote
    io_biases,    \* biases of main: what generate_io_biases wrote
    io_loc,       \* loc of main: what generate_io_localization wrote
    subject_text, \* raw_text given to inject_on_built_hook
    subject_list, \* list_name given to inject_on_built_hook
    patched,      \* what inject_on_built_hook returned last
    applied,      \* how many times inject_on_built_hook was applied to the text
    log_lines,    \* the lines of the log file given to parse_log
    mod_filter,   \* mod_filter of parse_log
    line_no,      \* how many lines the for loop of parse_log has read
    current_message, \* current_message of parse_log
    messages,     \* messages of parse_log: signature -> count, locations, example
    current_line, \* history: the line that set current_message, or 0
    increments,   \* history: each count += 1, its line, signature and message line
    dropped       \* history: the location lines the mod filter dropped

lexvars == <<text, toks, doc, occ, struct, tokq, target, span>>

outvars == <<inject_code, replace_code, io_defs, init_effects, io_biases, io_loc>>

genvars == <<files, pms, buildings, qualifying, all_pm_goods, outvars>>

hookvars == <<subject_text, subject_list, patched, applied>>

logvars ==
    <<log_lines, mod_filter, line_no, current_message, messages, current_line,
      increments, dropped>>

vars == <<pc, lexvars, genvars, hookvars, logvars>>

----------------------------------------------------------------------------
(* Bounds *)

MaxToks == 7
MaxLex == 5
MaxText == 6
MaxBuildings == 2
MaxParts == 3
MaxLog == 3

----------------------------------------------------------------------------
(* Values *)

LB == <<"{">>
RB == <<"}">>
EQ == <<"=">>

Str(s) == [t |-> "str", s |-> s]
Flag == [t |-> "flag"]
Dict(d, o) == [t |-> "dict", d |-> d, occ |-> o]
List(l) == [t |-> "list", l |-> l]

Entry(k, v) == [k |-> k, v |-> v]

\* An entry of the history of a scope: the key, the value stored for it,
\* and the index of the key's token
Occ(k, v, at) == [k |-> k, v |-> v, at |-> at]

\* key in result
HasKey(result, key) == \E i \in 1..Len(result) : result[i].k = key

IndexOf(result, key) == CHOOSE i \in 1..Len(result) : result[i].k = key

\* result[key]
Get(result, key) == result[IndexOf(result, key)].v

----------------------------------------------------------------------------
(* parse_block, parse_file *)

\* A mutant of Promote: the second occurrence replaces the first.
PromoteDropsFirst(old, val) == List(<<val>>)

\* result[key] = [result[key], val]
Promote(old, val) == List(<<old, val>>)

\* A mutant of Store: a key that occurs again moves to the end.
StoreMovesLast(result, key, val) ==
    IF HasKey(result, key)
    THEN LET i == IndexOf(result, key)
             old == result[i].v
             rest == SelectSeq(result, LAMBDA e : e.k # key)
         IN  IF old.t = "list"
             THEN Append(rest, Entry(key, List(Append(old.l, val))))
             ELSE Append(rest, Entry(key, Promote(old, val)))
    ELSE Append(result, Entry(key, val))

\* The duplicate handling of parse_block and parse_file: a new key is
\* inserted at the end, the second occurrence turns the value into a list,
\* a later one appends to it.  The key keeps its position.
Store(result, key, val) ==
    IF HasKey(result, key)
    THEN LET i == IndexOf(result, key)
             old == result[i].v
         IN  IF old.t = "list"
             THEN [result EXCEPT ![i].v = List(Append(old.l, val))]
             ELSE [result EXCEPT ![i].v = Promote(old, val)]
    ELSE Append(result, Entry(key, val))

\* What parse_block and parse_file give back: the value, the next index,
\* whether an IndexError was raised instead, and the structural indices.
Ret(val, idx, st) == [val |-> val, idx |-> idx, err |-> FALSE, struct |-> st]
Raise(idx, st) == [val |-> Flag, idx |-> idx, err |-> TRUE, struct |-> st]

RECURSIVE ParseBlock(_, _)
RECURSIVE BlockLoop(_, _, _, _, _)

\* The while loop of parse_block and its return.
BlockLoop(tokens, idx, result, oc, st) ==
    IF idx <= Len(tokens) /\ tokens[idx] # RB
    THEN LET key == tokens[idx]
             i1 == idx + 1
         IN  IF i1 <= Len(tokens) /\ tokens[i1] = EQ
             THEN LET i2 == i1 + 1
                  IN  IF i2 <= Len(tokens) /\ tokens[i2] = LB
                      THEN LET r == ParseBlock(tokens, i2)
                           IN  IF r.err
                               THEN r
                               ELSE BlockLoop(tokens, r.idx,
                                              Store(result, key, r.val),
                                              Append(oc, Occ(key, r.val, idx)),
                                              st \cup {i1} \cup r.struct)
                      ELSE IF i2 > Len(tokens)
                           THEN Raise(i2, st \cup {i1})   \* tokens[idx]: IndexError
                           ELSE BlockLoop(tokens, i2 + 1,
                                          Store(result, key, Str(tokens[i2])),
                                          Append(oc, Occ(key, Str(tokens[i2]), idx)),
                                          st \cup {i1})
             ELSE BlockLoop(tokens, i1,
                            Store(result, key, Flag),
                            Append(oc, Occ(key, Flag, idx)),
                            st)
    ELSE IF idx <= Len(tokens)
         THEN Ret(Dict(result, oc), idx + 1, st \cup {idx})   \* skip '}'
         ELSE Ret(Dict(result, oc), idx, st)

\* parse_block(tokens, idx), called with tokens[idx] = '{'
ParseBlock(tokens, idx) == BlockLoop(tokens, idx + 1, <<>>, <<>>, {idx})

RECURSIVE FileLoopFlagTakesNext(_, _, _, _, _)

\* A mutant of FileLoop: after a key with no '=' the next token is skipped
\* as if it were the key's value.
FileLoopFlagTakesNext(tokens, idx, result, oc, st) ==
    IF idx <= Len(tokens)
    THEN LET key == tokens[idx]
             i1 == idx + 1
         IN  IF i1 <= Len(tokens) /\ tokens[i1] = EQ
             THEN LET i2 == i1 + 1
                  IN  IF i2 <= Len(tokens) /\ tokens[i2] = LB
                      THEN LET r == ParseBlock(tokens, i2)
                           IN  IF r.err
                               THEN r
                               ELSE FileLoopFlagTakesNext(tokens, r.idx,
                                        Store(result, key, r.val),
                                        Append(oc, Occ(key, r.val, idx)),
                                        st \cup {i1} \cup r.struct)
                      ELSE IF i2 > Len(tokens)
                           THEN Raise(i2, st \cup {i1})
                           ELSE FileLoopFlagTakesNext(tokens, i2 + 1,
                                    Store(result, key, Str(tokens[i2])),
                                    Append(oc, Occ(key, Str(tokens[i2]), idx)),
                                    st \cup {i1})
             ELSE FileLoopFlagTakesNext(tokens, i1 + 1,
                      Store(result, key, Flag),
                      Append(oc, Occ(key, Flag, idx)),
                      st)
    ELSE Ret(Dict(result, oc), idx, st)

RECURSIVE FileLoop(_, _, _, _, _)

\* The while loop of parse_file and its return.
FileLoop(tokens, idx, result, oc, st) ==
    IF idx <= Len(tokens)
    THEN LET key == tokens[idx]
             i1 == idx + 1
         IN  IF i1 <= Len(tokens) /\ tokens[i1] = EQ
             THEN LET i2 == i1 + 1
                  IN  IF i2 <= Len(tokens) /\ tokens[i2] = LB
                      THEN LET r == ParseBlock(tokens, i2)
                           IN  IF r.err
                               THEN r
                               ELSE FileLoop(tokens, r.idx,
                                             Store(result, key, r.val),
                                             Append(oc, Occ(key, r.val, idx)),
                                             st \cup {i1} \cup r.struct)
                      ELSE IF i2 > Len(tokens)
                           THEN Raise(i2, st \cup {i1})   \* toks[idx]: IndexError
                           ELSE FileLoop(tokens, i2 + 1,
                                         Store(result, key, Str(tokens[i2])),
                                         Append(oc, Occ(key, Str(tokens[i2]), idx)),
                                         st \cup {i1})
             ELSE FileLoop(tokens, i1,
                           Store(result, key, Flag),
                           Append(oc, Occ(key, Flag, idx)),
                           st)
    ELSE Ret(Dict(result, oc), idx, st)

\* parse_file, from the token list on
ParseTokens(tokens) == FileLoop(tokens, 1, <<>>, <<>>, {})

----------------------------------------------------------------------------
(* strip_bom, strip_comments, tokenize *)

Q == "\""
BS == "\\"
HASH == "#"
NL == "\n"
BOM == "BOM"

\* " \t\r\n" of tokenize
Blank == {" ", "\t", "\r", "\n"}

\* text[a:b] of Python with 1-based a and exclusive b, clamped to the text
Slice(s, a, b) ==
    LET lo == IF a < 1 THEN 1 ELSE a
        hi == IF b > Len(s) + 1 THEN Len(s) + 1 ELSE b
    IN  IF hi <= lo THEN <<>> ELSE SubSeq(s, lo, hi - 1)

RECURSIVE BomEnd(_, _)

BomEnd(s, i) == IF i <= Len(s) /\ s[i] = BOM THEN BomEnd(s, i + 1) ELSE i

\* text.lstrip(BOM)
StripBom(s) == Slice(s, BomEnd(s, 1), Len(s) + 1)

\* in_quote after the character ch of a line: every '"' toggles it
InQuoteAfter(in_quote, ch) == IF ch = Q THEN ~in_quote ELSE in_quote

\* One pass of the inner for loop of strip_comments at index st.i.  The
\* lines are taken in place: a newline ends the line (in_quote starts
\* False on the next one) and is kept by the join; dropping is TRUE from
\* the '#' of the break to the end of the line.
StripStep(s, st) ==
    LET ch == s[st.i]
    IN  IF ch = NL
        THEN [i |-> st.i + 1, in_quote |-> FALSE, dropping |-> FALSE,
              out |-> Append(st.out, ch)]
        ELSE IF st.dropping \/ (ch = HASH /\ ~st.in_quote)
        THEN [st EXCEPT !.i = @ + 1, !.dropping = TRUE]
        ELSE [i |-> st.i + 1, in_quote |-> InQuoteAfter(st.in_quote, ch),
              dropping |-> FALSE, out |-> Append(st.out, ch)]

RECURSIVE StripLoop(_, _, _)

\* Up to k passes of StripStep from st, stopping at the end of the text;
\* the first half of the passes is run before the second.
StripLoop(s, st, k) ==
    IF k = 0 \/ st.i > Len(s) THEN st
    ELSE IF k = 1 THEN StripStep(s, st)
    ELSE LET half == StripLoop(s, st, k \div 2)
         IN  IF half.i > Len(s) THEN half
             ELSE StripLoop(s, half, k - (k \div 2))

\* strip_comments: line by line, the characters up to the first '#' met
\* while in_quote is False.
StripComments(s) ==
    StripLoop(s, [i |-> 1, in_quote |-> FALSE, dropping |-> FALSE, out |-> <<>>],
              Len(s)).out

RECURSIVE QuoteEnd(_, _)

\* The inner while loop of the quoted-string case: from j, the index of
\* the closing '"' or an index past the end; a backslash skips a character.
QuoteEnd(s, j) ==
    IF j <= Len(s) /\ s[j] # Q
    THEN QuoteEnd(s, (IF s[j] = BS THEN j + 1 ELSE j) + 1)
    ELSE j

RECURSIVE WordEnd(_, _)

\* The inner while loop of the unquoted case.
WordEnd(s, j) ==
    IF j <= Len(s) /\ s[j] \notin (Blank \cup {"{", "}", "=", Q})
    THEN WordEnd(s, j + 1)
    ELSE j

\* One pass of the while loop of tokenize at index st.i of the stripped
\* text: the tokens yielded so far, and for each whether it came from the
\* quoted-string case.
TokStep(s, st) ==
    LET i == st.i
    IN  IF s[i] \in Blank
        THEN [st EXCEPT !.i = i + 1]
        ELSE IF s[i] = Q
        THEN LET j == QuoteEnd(s, i + 1)
             IN  [i |-> j + 1, toks |-> Append(st.toks, Slice(s, i + 1, j)),
                  q |-> Append(st.q, TRUE)]
        ELSE IF s[i] \in {"{", "}", "="}
        THEN [i |-> i + 1, toks |-> Append(st.toks, <<s[i]>>),
              q |-> Append(st.q, FALSE)]
        ELSE LET j == WordEnd(s, i)
             IN  [i |-> j, toks |-> Append(st.toks, Slice(s, i, j)),
                  q |-> Append(st.q, FALSE)]

RECURSIVE TokLoop(_, _, _)

\* Up to k passes of TokStep from st, stopping when i reaches the end of
\* the text; the first half of the passes is run before the second.
TokLoop(s, st, k) ==
    IF k = 0 \/ st.i > Len(s) THEN st
    ELSE IF k = 1 THEN TokStep(s, st)
    ELSE LET half == TokLoop(s, st, k \div 2)
         IN  IF half.i > Len(s) THEN half
             ELSE TokLoop(s, half, k - (k \div 2))

\* list(tokenize(text))
Tokenize(s) ==
    LET stripped == StripComments(StripBom(s))
        st == TokLoop(stripped, [i |-> 1, toks |-> <<>>, q |-> <<>>], Len(stripped))
    IN  [toks |-> st.toks, q |-> st.q]

\* parse_file on a file's text
ParseText(s) == ParseTokens(Tokenize(s).toks)

----------------------------------------------------------------------------
(* read_raw_building_text *)

RECURSIVE SkipSpace(_, _)

\* \s* of the pattern, from i
SkipSpace(s, i) == IF i <= Len(s) /\ s[i] \in Blank THEN SkipSpace(s, i + 1) ELSE i

\* ^ under re.MULTILINE
AtLineStart(s, p) == p = 1 \/ s[p - 1] = NL

\* The pattern key\s*=\s*\{ matched at p: the index after the match, or 0.
KeyOpenEnd(s, p, key) ==
    IF Slice(s, p, p + Len(key)) = key
    THEN LET e == SkipSpace(s, p + Len(key))
         IN  IF e <= Len(s) /\ s[e] = "="
             THEN LET b == SkipSpace(s, e + 1)
                  IN  IF b <= Len(s) /\ s[b] = "{" THEN b + 1 ELSE 0
             ELSE 0
    ELSE 0

\* The pattern ^(name)\s*=\s*\{ matched at p: the index after the match, or 0.
MatchAt(s, p, name) == IF AtLineStart(s, p) THEN KeyOpenEnd(s, p, name) ELSE 0

\* pattern.search(text): the start of the leftmost match, or 0
SearchDecl(s, name) ==
    LET hits == {p \in 1..Len(s) : MatchAt(s, p, name) # 0}
    IN  IF hits = {} THEN 0 ELSE CHOOSE p \in hits : \A r \in hits : p <= r

\* text.index('{', start)
IndexOfBrace(s, start) ==
    CHOOSE i \in start..Len(s) : s[i] = "{" /\ \A j \in start..(i - 1) : s[j] # "{"

NotFound == [found |-> FALSE, start |-> 0, end |-> 0]

\* A mutant of DepthLoop: the span ends at the first '}', whatever the depth.
DepthLoopFirstClose(s, start, i, depth) ==
    LET closes == {j \in i..Len(s) : s[j] = "}"}
    IN  IF closes = {} THEN NotFound
        ELSE [found |-> TRUE, start |-> start,
              end |-> CHOOSE j \in closes : \A m \in closes : j <= m]

\* One pass of the while loop of read_raw_building_text at index st.i;
\* end is the index of the '}' that brought depth to zero, 0 before that.
DepthStep(s, st) ==
    IF s[st.i] = "{"
    THEN [st EXCEPT !.i = @ + 1, !.depth = @ + 1]
    ELSE IF s[st.i] = "}"
    THEN IF st.depth - 1 = 0
         THEN [st EXCEPT !.depth = 0, !.end = st.i]
         ELSE [st EXCEPT !.i = @ + 1, !.depth = @ - 1]
    ELSE [st EXCEPT !.i = @ + 1]

DepthDone(s, st) == st.end # 0 \/ st.i > Len(s)

RECURSIVE DepthIter(_, _, _)

\* Up to k passes of DepthStep from st, stopping at the return or at the
\* end of the text; the first half of the passes is run before the second.
DepthIter(s, st, k) ==
    IF k = 0 \/ DepthDone(s, st) THEN st
    ELSE IF k = 1 THEN DepthStep(s, st)
    ELSE LET half == DepthIter(s, st, k \div 2)
         IN  IF DepthDone(s, half) THEN half
             ELSE DepthIter(s, half, k - (k \div 2))

\* The while loop of read_raw_building_text: the span text[start:i+1] where
\* depth returns to zero, None when the text ends first.
DepthLoop(s, start, i, depth) ==
    LET st == DepthIter(s, [i |-> i, depth |-> depth, end |-> 0], Len(s))
    IN  IF st.end = 0 THEN NotFound
        ELSE [found |-> TRUE, start |-> start, end |-> st.end]

\* read_raw_building_text on the file's text
ReadRawBuildingText(raw, name) ==
    LET s == StripBom(raw)
        start == SearchDecl(s, name)
    IN  IF start = 0 THEN NotFound
        ELSE DepthLoop(s, start, IndexOfBrace(s, start), 0)

----------------------------------------------------------------------------
(* parse_production_methods, parse_all_buildings *)

\* A word of the script as one token.
W(w) == <<w>>

None == [t |-> "none"]

PM_META_KEYS == {W("category"), W("no_upkeep"), W("potential"), W("produced"), W("output")}

\* Names of GOVERNMENT_BUILDINGS (the set has 139).
GOVERNMENT_BUILDINGS == {W("castle"), W("barracks"), W("shipyard"), W("versailles")}

\* The numerals of the game files and what float() makes of them; float()
\* of any other word raises ValueError.
FloatOf ==
    (W("1") :> 10) @@ (W("1.0") :> 10) @@ (W("2") :> 20) @@ (W("0.5") :> 5) @@ (W("0") :> 0)

IsFloat(tok) == tok \in DOMAIN FloatOf

\* d[key] = val on a dict: an existing key keeps its position
SetItem(d, key, val) ==
    IF HasKey(d, key)
    THEN [d EXCEPT ![IndexOf(d, key)].v = val]
    ELSE Append(d, Entry(key, val))

\* block.get(key)
GetOrNone(block, key) == IF HasKey(block, key) THEN Get(block, key) ELSE None

\* The goods loop: the keys that are no meta key and whose value is a str
\* float() accepts, with the amount (in tenths).
GoodsOf(block) ==
    LET sel == SelectSeq(block, LAMBDA e :
                   e.k \notin PM_META_KEYS /\ e.v.t = "str" /\ IsFloat(e.v.s))
    IN  [i \in 1..Len(sel) |-> Entry(sel[i].k, FloatOf[sel[i].v.s])]

\* The pm record of parse_production_methods
ExternalPm(block) ==
    [goods |-> GoodsOf(block),
     no_upkeep |-> HasKey(block, W("no_upkeep")) /\ Get(block, W("no_upkeep")) = Str(W("yes")),
     has_output |-> HasKey(block, W("produced")) \/ HasKey(block, W("output")),
     has_potential |-> HasKey(block, W("potential"))]

\* parse_production_methods on the parsed PM_FILE
ParseProductionMethods(data) ==
    LET sel == SelectSeq(data, LAMBDA e : e.v.t = "dict")
    IN  [i \in 1..Len(sel) |-> Entry(sel[i].k, ExternalPm(sel[i].v.d))]

\* The record stored in b['unique_pms'][pm_name]
InlinePm(pm_block) ==
    [goods |-> GoodsOf(pm_block),
     has_output |-> HasKey(pm_block, W("produced")) \/ HasKey(pm_block, W("output")),
     no_upkeep |-> GetOrNone(pm_block, W("no_upkeep")) = Str(W("yes")),
     is_maintenance |-> GetOrNone(pm_block, W("category")) = Str(W("building_maintenance"))]

\* b['possible_pms']: the keys of a block, the elements of a list, else [].
\* A key is a str; an element of a list is whatever value was parsed.
PossiblePms(ppm) ==
    IF ppm.t = "dict" THEN [i \in 1..Len(ppm.d) |-> Str(ppm.d[i].k)]
    ELSE IF ppm.t = "list" THEN ppm.l
    ELSE <<>>

\* b['unique_pms']
UniquePms(upm) ==
    IF upm.t = "dict"
    THEN LET sel == SelectSeq(upm.d, LAMBDA e : e.v.t = "dict")
         IN  [i \in 1..Len(sel) |-> Entry(sel[i].k, InlinePm(sel[i].v.d))]
    ELSE <<>>

\* has_trade_capacity
HasTradeCapacity(block) ==
    /\ HasKey(block, W("modifier"))
    /\ Get(block, W("modifier")).t = "dict"
    /\ \/ HasKey(Get(block, W("modifier")).d, W("local_merchant_capacity"))
       \/ HasKey(Get(block, W("modifier")).d, W("merchant_capacity_from_building"))

\* The record b of a building block of file f (without 'raw', which
\* nothing reads).
Building(f, block) ==
    [file |-> f,
     estate |-> GetOrNone(block, W("estate")),
     is_foreign |-> GetOrNone(block, W("is_foreign")) = Str(W("yes")),
     has_trade_capacity |-> HasTradeCapacity(block),
     has_on_built |-> HasKey(block, W("on_built")),
     has_on_destroyed |-> HasKey(block, W("on_destroyed")),
     possible_pms |-> PossiblePms(GetOrNone(block, W("possible_production_methods"))),
     unique_pms |-> UniquePms(GetOrNone(block, W("unique_production_methods")))]

skip_files == {"readme.txt", "00_unique_buildings_to_make_obsolete.txt"}

RECURSIVE FileBuildings(_, _, _, _)

\* The inner loop of parse_all_buildings over the entries of one file
FileBuildings(f, data, i, bs) ==
    IF i > Len(data) THEN bs
    ELSE IF data[i].v.t # "dict" THEN FileBuildings(f, data, i + 1, bs)
    ELSE FileBuildings(f, data, i + 1,
                       SetItem(bs, data[i].k, Building(f, data[i].v.d)))

RECURSIVE AllBuildings(_, _, _)

\* The outer loop of parse_all_buildings over the sorted files
AllBuildings(fs, f, bs) ==
    IF f > Len(fs) THEN bs
    ELSE IF fs[f].name \in skip_files \/ ~fs[f].txt THEN AllBuildings(fs, f + 1, bs)
    ELSE AllBuildings(fs, f + 1,
                      FileBuildings(f, ParseText(fs[f].text).val.d, 1, bs))

ParseAllBuildings(fs) == AllBuildings(fs, 1, <<>>)

----------------------------------------------------------------------------
(* classify *)

\* A mutant of TemplateUsable: a template with output passes.
TemplateUsableIgnoresOutput(pm) == ~pm.no_upkeep /\ pm.goods # <<>>

\* The three tests classify makes of a template's record, external or inline
TemplateUsable(pm) == ~(pm.no_upkeep \/ pm.has_output) /\ pm.goods # <<>>

\* A mutant of KeepFirst: a later usable template replaces the earlier one.
KeepLast(best_pm, cand) == cand

\* if best_pm is None: best_pm = cand
KeepFirst(best_pm, cand) == IF best_pm = None THEN cand ELSE best_pm

Best(pm_name, source) == [t |-> "best", pm |-> pm_name, source |-> source]

Scan(best_pm, reg, err) == [best |-> best_pm, reg |-> reg, err |-> err]

RECURSIVE ExternalScan(_, _, _, _, _)

\* for pm_name in b['possible_pms'].  `pm_name not in pms` hashes pm_name:
\* a block (OrderedDict) is unhashable and raises TypeError.
ExternalScan(possible, j, best_pm, reg, known) ==
    IF j > Len(possible) THEN Scan(best_pm, reg, FALSE)
    ELSE LET el == possible[j]
         IN  IF el.t \in {"dict", "list"} THEN Scan(best_pm, reg, TRUE)
             ELSE IF el.t # "str" \/ ~HasKey(known, el.s)
             THEN ExternalScan(possible, j + 1, best_pm, reg, known)
             ELSE LET pm == Get(known, el.s)
                  IN  IF ~TemplateUsable(pm)
                      THEN ExternalScan(possible, j + 1, best_pm, reg, known)
                      ELSE ExternalScan(possible, j + 1,
                               KeepFirst(best_pm, Best(el.s, "external")),
                               IF best_pm = None THEN SetItem(reg, el.s, pm.goods) ELSE reg,
                               known)

RECURSIVE InlineScanNoRegister(_, _, _, _)

\* A mutant of InlineScan: the winning inline template is not registered.
InlineScanNoRegister(unique, j, best_pm, reg) ==
    IF j > Len(unique) THEN Scan(best_pm, reg, FALSE)
    ELSE LET pm == unique[j].v
         IN  IF ~pm.is_maintenance \/ ~TemplateUsable(pm)
             THEN InlineScanNoRegister(unique, j + 1, best_pm, reg)
             ELSE InlineScanNoRegister(unique, j + 1,
                      KeepFirst(best_pm, Best(unique[j].k, "inline")), reg)

RECURSIVE InlineScan(_, _, _, _)

\* for pm_name, pm_data in b['unique_pms'].items()
InlineScan(unique, j, best_pm, reg) ==
    IF j > Len(unique) THEN Scan(best_pm, reg, FALSE)
    ELSE LET pm == unique[j].v
         IN  IF ~pm.is_maintenance \/ ~TemplateUsable(pm)
             THEN InlineScan(unique, j + 1, best_pm, reg)
             ELSE InlineScan(unique, j + 1,
                      KeepFirst(best_pm, Best(unique[j].k, "inline")),
                      IF best_pm = None THEN SetItem(reg, unique[j].k, pm.goods) ELSE reg)

\* The tuple appended to qualifying
Qualified(bname, best_pm, b) ==
    [bname |-> bname, pm |-> best_pm.pm, source |-> best_pm.source,
     is_trade |-> b.has_trade_capacity /\ ~b.is_foreign,
     is_foreign |-> b.is_foreign]

Classified(q, reg, err) == [qualifying |-> q, all_pm_goods |-> reg, err |-> err]

RECURSIVE ClassifyLoop(_, _, _, _, _)

\* for bname, b in buildings.items()
ClassifyLoop(bs, i, q, reg, known) ==
    IF i > Len(bs) THEN Classified(q, reg, FALSE)
    ELSE LET bname == bs[i].k
             b == bs[i].v
         IN  IF bname \in GOVERNMENT_BUILDINGS \/ b.estate # None
             THEN ClassifyLoop(bs, i + 1, q, reg, known)
             ELSE LET ext == ExternalScan(b.possible_pms, 1, None, reg, known)
                      inl == InlineScan(b.unique_pms, 1, ext.best, ext.reg)
                  IN  IF ext.err THEN Classified(q, reg, TRUE)
                      ELSE IF inl.best # None
                      THEN ClassifyLoop(bs, i + 1,
                               Append(q, Qualified(bname, inl.best, b)), inl.reg, known)
                      ELSE ClassifyLoop(bs, i + 1, q, inl.reg, known)

\* classify(buildings, pms)
Classify(bs, known) == ClassifyLoop(bs, 1, <<>>, <<>>, known)

----------------------------------------------------------------------------
(* inject_on_built_hook *)

TAB == "\t"

RECURSIVE Sp(_)

\* The words of a line of code, one space between two words
Sp(ws) ==
    IF Len(ws) <= 1 THEN ws ELSE <<ws[1], " ">> \o Sp(Tail(ws))

\* add_code
AddCode(list_name) ==
    <<NL, TAB, TAB>> \o Sp(<<HASH, "EPBM:", "Track", "building", "for", "maintenance">>)
    \o <<NL, TAB, TAB>>
    \o Sp(<<"location", "=", "{", "add_to_variable_list", "=", "{",
            "name", "=", list_name, "target", "=", "prev", "}", "}">>)
    \o <<NL, TAB, TAB>> \o Sp(<<"epbm_on_building_built", "=", "yes">>)

\* remove_code
RemoveCode(list_name) ==
    <<NL, TAB, TAB>> \o Sp(<<HASH, "EPBM:", "Untrack", "building">>)
    \o <<NL, TAB, TAB>>
    \o Sp(<<"location", "=", "{", "remove_list_variable", "=", "{",
            "name", "=", list_name, "target", "=", "prev", "}", "}">>)
    \o <<NL, TAB, TAB>> \o Sp(<<"epbm_on_building_destroyed", "=", "yes">>)

\* pattern.search(raw_text) for key\s*=\s*\{: the leftmost match
SearchKeyOpen(s, key) ==
    LET hits == {p \in 1..Len(s) : KeyOpenEnd(s, p, key) # 0}
    IN  IF hits = {} THEN [found |-> FALSE, start |-> 0, end |-> 0]
        ELSE LET p == CHOOSE p \in hits : \A r \in hits : p <= r
             IN  [found |-> TRUE, start |-> p, end |-> KeyOpenEnd(s, p, key)]

\* The depth loop from brace_start: the index of the '}' that brings depth
\* back to zero, 0 when the text ends first.
CloseOf(s, brace_start) ==
    DepthIter(s, [i |-> brace_start, depth |-> 0, end |-> 0], Len(s)).end

\* \w of the patterns: a character of a name (in a text of words, a word)
WordChar(c) ==
    c \notin Blank \cup {"{", "}", "=", Q, HASH, BS, BOM, "EPBM:", "0.5", "1.0"}

RECURSIVE WordRunEnd(_, _)

\* \w*, from j
WordRunEnd(s, j) ==
    IF j <= Len(s) /\ WordChar(s[j]) THEN WordRunEnd(s, j + 1) ELSE j

\* pm_def_pattern (\t\t)(\w+)(\s*=\s*\{) matched at p: the index after the
\* name and the index after the match, or 0.
PmDefAt(s, p) ==
    IF p + 2 <= Len(s) /\ s[p] = TAB /\ s[p + 1] = TAB /\ WordChar(s[p + 2])
    THEN LET w == WordRunEnd(s, p + 2)
             e == SkipSpace(s, w)
         IN  IF e <= Len(s) /\ s[e] = "="
             THEN LET b == SkipSpace(s, e + 1)
                  IN  IF b <= Len(s) /\ s[b] = "{"
                      THEN [name_end |-> w, end |-> b + 1]
                      ELSE [name_end |-> 0, end |-> 0]
             ELSE [name_end |-> 0, end |-> 0]
    ELSE [name_end |-> 0, end |-> 0]

\* The names rename_pm leaves alone
KeptNames ==
    {<<"unique_production_methods">>, <<"category">>, <<"potential">>, <<"no_upkeep">>}

\* A mutant of RenamePm: the meta keys are prefixed like the rest.
RenamePmAll(name) == <<"epbm_">> \o name

\* rename_pm: group 2 of the replacement
RenamePm(name) == IF name \in KeptNames THEN name ELSE <<"epbm_">> \o name

RECURSIVE SubPmDefs(_, _)

\* pm_def_pattern.sub(rename_pm, block), from pos: the matches are taken
\* left to right, each search starting where the last match ended
SubPmDefs(s, pos) ==
    LET hits == {p \in pos..Len(s) : PmDefAt(s, p).end # 0}
    IN  IF hits = {} THEN Slice(s, pos, Len(s) + 1)
        ELSE LET p == CHOOSE p \in hits : \A r \in hits : p <= r
                 m == PmDefAt(s, p)
             IN  Slice(s, pos, p + 2)
                 \o RenamePm(Slice(s, p + 2, m.name_end))
                 \o Slice(s, m.name_end, m.end)
                 \o SubPmDefs(s, m.end)

\* The first part of inject_on_built_hook: the template names of the
\* unique_production_methods block get the prefix
RenameInlinePms(raw_text) ==
    LET upm_match == SearchKeyOpen(raw_text, <<"unique_production_methods">>)
    IN  IF ~upm_match.found THEN raw_text
        ELSE LET close == CloseOf(raw_text, upm_match.end - 1)
                 upm_end == IF close = 0 THEN Len(raw_text) + 1 ELSE close + 1
                 upm_block == Slice(raw_text, upm_match.start, upm_end)
             IN  Slice(raw_text, 1, upm_match.start)
                 \o SubPmDefs(upm_block, 1)
                 \o Slice(raw_text, upm_end, Len(raw_text) + 1)

\* A mutant of SpliceIntoBlock: the code goes before the first '}' after
\* the opening brace.
SpliceAtFirstClose(raw_text, key, code) ==
    LET match == SearchKeyOpen(raw_text, key)
        closes == {j \in 1..Len(raw_text) :
                     match.found /\ j >= match.end /\ raw_text[j] = "}"}
    IN  IF closes = {} THEN raw_text
        ELSE LET i == CHOOSE j \in closes : \A r \in closes : j <= r
             IN  Slice(raw_text, 1, i) \o code \o <<NL, TAB>>
                 \o Slice(raw_text, i, Len(raw_text) + 1)

\* The splice of code before the '}' that closes the first block of key;
\* the text is unchanged when there is no such block or it is not closed.
SpliceIntoBlock(raw_text, key, code) ==
    LET match == SearchKeyOpen(raw_text, key)
        i == IF match.found THEN CloseOf(raw_text, match.end - 1) ELSE 0
    IN  IF i = 0 THEN raw_text
        ELSE Slice(raw_text, 1, i) \o code \o <<NL, TAB>>
             \o Slice(raw_text, i, Len(raw_text) + 1)

\* 'on_destroyed' in raw_text
Contains(s, sub) == \E p \in 1..Len(s) : Slice(s, p, p + Len(sub)) = sub

\* raw_text.rindex('}') (a span of read_raw_building_text ends with '}')
LastBrace(s) == CHOOSE i \in 1..Len(s) : s[i] = "}" /\ \A j \in (i + 1)..Len(s) : s[j] # "}"

\* A mutant of AddOnDestroyed: the new on_destroyed block is written over
\* the last '}' of the text.
AddOnDestroyedOverLastBrace(raw_text, list_name) ==
    IF ~Contains(raw_text, <<"on_destroyed">>)
    THEN LET last_brace == LastBrace(raw_text)
         IN  Slice(raw_text, 1, last_brace)
             \o <<NL, TAB>> \o Sp(<<"on_destroyed", "=", "{">>)
             \o RemoveCode(list_name) \o <<NL, TAB, "}">> \o <<NL>>
             \o Slice(raw_text, last_brace + 1, Len(raw_text) + 1)
    ELSE SpliceIntoBlock(raw_text, <<"on_destroyed">>, RemoveCode(list_name))

\* The last part of inject_on_built_hook: on_destroyed is added before the
\* last '}' when the text does not hold the word, else the first
\* on_destroyed block gets the code
AddOnDestroyed(raw_text, list_name) ==
    IF ~Contains(raw_text, <<"on_destroyed">>)
    THEN LET last_brace == LastBrace(raw_text)
         IN  Slice(raw_text, 1, last_brace)
             \o <<NL, TAB>> \o Sp(<<"on_destroyed", "=", "{">>)
             \o RemoveCode(list_name) \o <<NL, TAB, "}">> \o <<NL>>
             \o Slice(raw_text, last_brace, Len(raw_text) + 1)
    ELSE SpliceIntoBlock(raw_text, <<"on_destroyed">>, RemoveCode(list_name))

\* A mutant of InjectOnBuiltHook: a text that holds the tracking code is
\* returned as it is.
InjectUnlessPatched(raw_text, building_name, list_name) ==
    IF Contains(raw_text, AddCode(list_name)) THEN raw_text
    ELSE AddOnDestroyed(
             SpliceIntoBlock(RenameInlinePms(raw_text), <<"on_built">>, AddCode(list_name)),
             list_name)

\* inject_on_built_hook(raw_text, building_name, list_name)
InjectOnBuiltHook(raw_text, building_name, list_name) ==
    AddOnDestroyed(
        SpliceIntoBlock(RenameInlinePms(raw_text), <<"on_built">>, AddCode(list_name)),
        list_name)

----------------------------------------------------------------------------
(* generate_inject, generate_replace, generate_init_effects *)

\* The names of the game data in the order of Python's str comparison
SortedWords ==
    <<"b1", "b2", "barracks", "castle", "e", "n", "o", "q", "shipyard", "u", "v",
      "versailles", "w", "x", "y", "z">>

\* a <= b for two names (tokens of one word)
NameLeq(a, b) ==
    LET Rank(t) == CHOOSE i \in 1..Len(SortedWords) : SortedWords[i] = t[1]
    IN  Rank(a) <= Rank(b)

\* A mutant of SortedQualifying: the entries are taken in the order given.
Unsorted(q) == q

RECURSIVE SortedQualifying(_)

\* sorted(qualifying, key=lambda x: x[0]): the sort is stable
SortedQualifying(q) ==
    IF q = <<>> THEN <<>>
    ELSE LET rest == SortedQualifying(SubSeq(q, 1, Len(q) - 1))
             last == q[Len(q)]
             keep == SelectSeq(rest, LAMBDA e : NameLeq(e.bname, last.bname))
             move == SelectSeq(rest, LAMBDA e : ~NameLeq(e.bname, last.bname))
         IN  keep \o <<last>> \o move

RECURSIVE SortedNames(_)

\* sorted(all_pm_goods.keys())
SortedNames(d) ==
    IF d = <<>> THEN <<>>
    ELSE LET rest == SortedNames(SubSeq(d, 1, Len(d) - 1))
             last == d[Len(d)].k
         IN  SelectSeq(rest, LAMBDA k : NameLeq(k, last)) \o <<last>>
             \o SelectSeq(rest, LAMBDA k : ~NameLeq(k, last))

\* list_name
ListName(is_trade) == IF is_trade THEN "epbm_trade_types" ELSE "epbm_building_types"

\* A mutant of SkipsHooks: a foreign building is not skipped.
SkipsHooksNever(is_foreign) == FALSE

\* if is_foreign: continue, of generate_inject, generate_replace and the
\* init dispatch of generate_init_effects
SkipsHooks(is_foreign) == is_foreign

\* The INJECT block of generate_inject for the entry e
InjectBlock(e) ==
    [kind |-> "INJECT", bname |-> e.bname, pm |-> e.pm,
     list_name |-> ListName(e.is_trade), trade |-> e.is_trade]

RECURSIVE InjectLoopOnBuiltOnly(_, _, _, _)

\* A mutant of InjectLoop: only on_built sends an entry to the REPLACE file.
InjectLoopOnBuiltOnly(q, i, bs, lines) ==
    IF i > Len(q) THEN lines
    ELSE LET b == Get(bs, q[i].bname)
         IN  IF SkipsHooks(q[i].is_foreign) \/ b.has_on_built
             THEN InjectLoopOnBuiltOnly(q, i + 1, bs, lines)
             ELSE InjectLoopOnBuiltOnly(q, i + 1, bs, Append(lines, InjectBlock(q[i])))

RECURSIVE InjectLoop(_, _, _, _)

\* The for loop of generate_inject over the sorted entries
InjectLoop(q, i, bs, lines) ==
    IF i > Len(q) THEN lines
    ELSE LET b == Get(bs, q[i].bname)
         IN  IF SkipsHooks(q[i].is_foreign) \/ b.has_on_built \/ b.has_on_destroyed
             THEN InjectLoop(q, i + 1, bs, lines)
             ELSE InjectLoop(q, i + 1, bs, Append(lines, InjectBlock(q[i])))

\* generate_inject(qualifying, buildings): the blocks under the header
GenerateInject(q, bs) == InjectLoop(SortedQualifying(q), 1, bs, <<>>)

\* The lines generate_replace appends for the entry e of a building of the
\* file with this text
ReplaceBlock(e, file_text) ==
    LET raw == ReadRawBuildingText(file_text, e.bname)
    IN  IF ~raw.found THEN [kind |-> "WARNING", bname |-> e.bname]
        ELSE [kind |-> "REPLACE", bname |-> e.bname, pm |-> e.pm,
              list_name |-> ListName(e.is_trade), trade |-> e.is_trade,
              modified |-> InjectOnBuiltHook(
                               SubSeq(StripBom(file_text), raw.start, raw.end),
                               e.bname, ListName(e.is_trade))]

RECURSIVE ReplaceLoop(_, _, _, _, _)

\* The for loop of generate_replace over the sorted entries
ReplaceLoop(q, i, bs, fs, lines) ==
    IF i > Len(q) THEN lines
    ELSE LET b == Get(bs, q[i].bname)
         IN  IF SkipsHooks(q[i].is_foreign) \/ (~b.has_on_built /\ ~b.has_on_destroyed)
             THEN ReplaceLoop(q, i + 1, bs, fs, lines)
             ELSE ReplaceLoop(q, i + 1, bs, fs,
                              Append(lines, ReplaceBlock(q[i], fs[b.file].text)))

\* generate_replace(qualifying, buildings): the blocks under the header
GenerateReplace(q, bs, fs) == ReplaceLoop(SortedQualifying(q), 1, bs, fs, <<>>)

\* io_name: epbm_pm_<pm_name>
IoName(pm_name) == <<"epbm_pm_">> \o pm_name

\* generate_io_definitions(all_pm_goods): the container declarations
GenerateIoDefinitions(reg) ==
    LET names == SortedNames(reg)
    IN  [i \in 1..Len(names) |-> [io_name |-> IoName(names[i])]]

\* generate_io_biases(all_pm_goods): the opinion biases
GenerateIoBiases(reg) ==
    LET names == SortedNames(reg)
    IN  [i \in 1..Len(names) |-> [bias |-> <<"io_opinion_">> \o IoName(names[i])]]

\* The six localization keys of the container io
LocKeys(io) ==
    <<io, io \o <<"_desc">>,
      <<"diplomatic_status_">> \o io \o <<"_name">>,
      <<"diplomatic_status_">> \o io \o <<"_tooltip">>,
      io \o <<"_list_who_tt">>,
      <<"io_opinion_">> \o io>>

\* generate_io_localization(all_pm_goods): the keys, six per container
GenerateIoLocalization(reg) ==
    LET names == SortedNames(reg)
    IN  [i \in 1..(6 * Len(names)) |->
            LocKeys(IoName(names[((i - 1) \div 6) + 1]))[((i - 1) % 6) + 1]]

\* tag of the epbm_profiles line
ProfileTag(e) ==
    IF e.is_foreign THEN "foreign" ELSE IF e.is_trade THEN "trade" ELSE ""

RECURSIVE DispatchLoopFirstByIndex(_, _, _, _)

\* A mutant of DispatchLoop: the keyword is if for the first entry of the
\* sorted list only, skipped or not.
DispatchLoopFirstByIndex(q, i, first, lines) ==
    IF i > Len(q) THEN lines
    ELSE IF SkipsHooks(q[i].is_foreign)
         THEN DispatchLoopFirstByIndex(q, i + 1, first, lines)
    ELSE DispatchLoopFirstByIndex(q, i + 1, FALSE,
             Append(lines, [keyword |-> IF i = 1 THEN "if" ELSE "else_if",
                            bname |-> q[i].bname,
                            list_name |-> ListName(q[i].is_trade)]))

RECURSIVE DispatchLoop(_, _, _, _)

\* The for loop of part 2 of generate_init_effects over the sorted entries:
\* the clauses of epbm_init_building
DispatchLoop(q, i, first, lines) ==
    IF i > Len(q) THEN lines
    ELSE IF SkipsHooks(q[i].is_foreign) THEN DispatchLoop(q, i + 1, first, lines)
    ELSE DispatchLoop(q, i + 1, FALSE,
             Append(lines, [keyword |-> IF first THEN "if" ELSE "else_if",
                            bname |-> q[i].bname,
                            list_name |-> ListName(q[i].is_trade)]))

\* generate_init_effects(qualifying, all_pm_goods, buildings): in
\* epbm_stamp_globals the containers created, the epbm_profiles entries and
\* the epbm_all_ios entries; the clauses of epbm_init_building
GenerateInitEffects(q, reg, bs) ==
    LET names == SortedNames(reg)
        sorted == SortedQualifying(q)
    IN  [ios |-> [i \in 1..Len(names) |->
                     [pm |-> names[i], io_type |-> IoName(names[i]),
                      goods |-> Get(reg, names[i])]],
         profiles |-> [i \in 1..Len(sorted) |->
                          [bname |-> sorted[i].bname, pm |-> sorted[i].pm,
                           io_ref |-> IoName(sorted[i].pm),
                           tag |-> ProfileTag(sorted[i])]],
         all_ios |-> names,
         clauses |-> DispatchLoop(sorted, 1, TRUE, <<>>)]

----------------------------------------------------------------------------
(* The runs: a file is read, tokenized, parsed, and a block located in it *)

NoDoc == <<>>

RECURSIVE JoinToks(_)

\* The tokens written out one per line.
JoinToks(ts) == IF ts = <<>> THEN <<>> ELSE ts[1] \o <<NL>> \o JoinToks(Tail(ts))

TokAlphabet == {<<"a">>, <<"b">>, EQ, LB, RB}

TokSeqs == UNION {[1..n -> TokAlphabet] : n \in 0..MaxToks}

LexAlphabet == {"a", Q, HASH, BS, NL, " "}

TextAlphabet == {"a", "=", "{", "}", Q, NL}

Texts(alphabet, n) == UNION {[1..m -> alphabet] : m \in 0..n}

\* Nothing of the game data is loaded.
\* The state before any file is generated.
NothingWritten ==
    /\ inject_code = <<>>
    /\ replace_code = <<>>
    /\ io_defs = <<>>
    /\ init_effects = <<>>
    /\ io_biases = <<>>
    /\ io_loc = <<>>

\* inject_on_built_hook has not been called.
NotPatched ==
    /\ subject_text = <<>>
    /\ subject_list = ""
    /\ patched = <<>>
    /\ applied = 0

\* parse_log has not been called.
NoLog ==
    /\ log_lines = <<>>
    /\ mod_filter = None
    /\ line_no = 0
    /\ current_message = None
    /\ messages = <<>>
    /\ current_line = 0
    /\ increments = <<>>
    /\ dropped = {}

NoGameData ==
    /\ NothingWritten
    /\ NotPatched
    /\ NoLog
    /\ files = <<>>
    /\ pms = <<>>
    /\ buildings = <<>>
    /\ qualifying = <<>>
    /\ all_pm_goods = <<>>

\* The state before tokenize has run on the text.
Unread ==
    /\ pc = "text"
    /\ NoGameData
    /\ toks = <<>>
    /\ tokq = <<>>
    /\ doc = NoDoc
    /\ occ = <<>>
    /\ struct = {}
    /\ target = <<>>
    /\ span = NotFound

\* toks = list(tokenize(text))
TokenizeText ==
    /\ pc = "text"
    /\ LET r == Tokenize(text)
       IN  toks' = r.toks /\ tokq' = r.q
    /\ pc' = "tokens"
    /\ UNCHANGED <<text, doc, occ, struct, target, span, genvars, hookvars, logvars>>

\* parse_file returns the document, or raises IndexError
ParseFile ==
    /\ pc = "tokens"
    /\ LET r == ParseTokens(toks)
       IN  /\ pc' = IF r.err THEN "raised" ELSE "parsed"
           /\ doc' = IF r.err THEN NoDoc ELSE r.val.d
           /\ occ' = IF r.err THEN <<>> ELSE r.val.occ
           /\ struct' = r.struct
    /\ UNCHANGED <<text, toks, tokq, target, span, genvars, hookvars, logvars>>

\* read_raw_building_text(file, name) for a top-level name of the document
Locate ==
    /\ pc = "parsed"
    /\ \E i \in 1..Len(doc) :
          /\ target' = doc[i].k
          /\ span' = ReadRawBuildingText(text, doc[i].k)
    /\ pc' = "located"
    /\ UNCHANGED <<text, toks, tokq, doc, occ, struct, genvars, hookvars, logvars>>

\* Token sequences, each the tokens of the text that writes them one per line.
InitParse ==
    /\ toks \in TokSeqs
    /\ text = JoinToks(toks)
    /\ tokq = [i \in 1..Len(toks) |-> FALSE]
    /\ pc = "tokens"
    /\ doc = NoDoc
    /\ occ = <<>>
    /\ struct = {}
    /\ target = <<>>
    /\ span = NotFound
    /\ NoGameData

NextParse == ParseFile

SpecParse == InitParse /\ [][NextParse]_vars

\* Texts of quotes, comments, escapes and line breaks.
InitLex == text \in Texts(LexAlphabet, MaxLex) /\ Unread

NextLex == TokenizeText

SpecLex == InitLex /\ [][NextLex]_vars

\* Texts of declarations.
InitText == text \in Texts(TextAlphabet, MaxText) /\ Unread

NextText == TokenizeText \/ ParseFile \/ Locate

SpecText == InitText /\ [][NextText]_vars

----------------------------------------------------------------------------
(* The generator run: main loads the game data and classifies *)

\* The tokens of a sequence of words.
T(ws) == [i \in 1..Len(ws) |-> W(ws[i])]

PPM == "possible_production_methods"
UPM == "unique_production_methods"
BM == "building_maintenance"

\* PM_FILE: x and y are usable (y carries no category), n has no_upkeep,
\* o has output, e has no goods.
PmFileWords ==
    <<"x", "=", "{", "category", "=", BM, "grain", "=", "1", "}",
      "y", "=", "{", "grain", "=", "2", "potential", "=", "{", "}", "}",
      "n", "=", "{", "category", "=", BM, "grain", "=", "1", "no_upkeep", "=", "yes", "}",
      "o", "=", "{", "category", "=", BM, "grain", "=", "1", "produced", "=", "grain", "}",
      "e", "=", "{", "category", "=", BM, "icon", "=", "none", "}">>

\* estate = <an estate>
EstatePart == <<"estate", "=", "nobles_estate">>

\* The shapes of possible_production_methods: absent, a scalar, a flag, a
\* block (one usable, an unusable before two usable, none usable), and the
\* key repeated with scalars and with blocks.
PpmParts ==
    {<<>>,
     <<PPM, "=", "x">>,
     <<PPM>>,
     <<PPM, "=", "{", "x", "}">>,
     <<PPM, "=", "{", "n", "y", "x", "}">>,
     <<PPM, "=", "{", "n", "o", "e", "q", "}">>,
     <<PPM, "=", "x", PPM, "=", "y">>,
     <<PPM, "=", "{", "x", "}", PPM, "=", "{", "y", "}">>}

\* The shapes of unique_production_methods: absent; an inline x with
\* another cost than the external x; a non-maintenance template before two
\* usable ones; none usable.
UpmParts ==
    {<<>>,
     <<UPM, "=", "{", "x", "=", "{", "category", "=", BM, "grain", "=", "2", "}", "}">>,
     <<UPM, "=", "{", "u", "=", "{", "grain", "=", "1", "}",
                      "v", "=", "{", "category", "=", BM, "stone", "=", "0.5", "}",
                      "x", "=", "{", "category", "=", BM, "grain", "=", "1.0", "}", "}">>,
     <<UPM, "=", "{", "u", "=", "{", "category", "=", BM, "grain", "=", "1", "no_upkeep", "=", "yes", "}",
                      "w", "=", "{", "category", "=", BM, "grain", "=", "1", "output", "=", "1", "}",
                      "z", "=", "{", "category", "=", BM, "grain", "=", "lots", "}", "}">>}

\* Every shape of the two keys without an estate; with an estate, a body
\* that would qualify by an external or by an inline template.
ClassifyBodies ==
    {p \o u : p \in PpmParts, u \in UpmParts}
        \cup {EstatePart \o <<PPM, "=", "{", "x", "}">>,
              EstatePart \o <<UPM, "=", "{", "x", "=", "{", "category", "=", BM,
                                                 "grain", "=", "2", "}", "}">>}

BuildingNames == {"castle", "b1", "b2"}

\* The names of n declarations: b1 and b2 are interchangeable to classify,
\* so b2 is used only after b1.
NameLists(n) ==
    {names \in [1..n -> BuildingNames] :
        \A i \in 1..n : names[i] = "b2" => \E j \in 1..(i - 1) : names[j] = "b1"}

\* name = { body }
Decl(name, body) == <<name, "=", "{">> \o body \o <<"}">>

RECURSIVE Concat(_)

Concat(seqs) == IF seqs = <<>> THEN <<>> ELSE seqs[1] \o Concat(Tail(seqs))

FileNames == <<"01_buildings.txt", "02_buildings.txt", "03_buildings.txt", "04_buildings.txt">>

\* A file of words written one per line.
File(i, words) ==
    [name |-> FileNames[i], txt |-> TRUE, text |-> JoinToks(T(words))]

\* The declarations in one file, or each in a file of its own.
Layout(decls, split) ==
    IF decls = <<>> THEN <<>>
    ELSE IF split THEN [i \in 1..Len(decls) |-> File(i, decls[i])]
    ELSE <<File(1, Concat(decls))>>

NotClassified ==
    /\ pc = "start"
    /\ NothingWritten
    /\ NotPatched
    /\ NoLog
    /\ pms = <<>>
    /\ buildings = <<>>
    /\ qualifying = <<>>
    /\ all_pm_goods = <<>>
    /\ text = <<>>
    /\ toks = <<>>
    /\ tokq = <<>>
    /\ doc = NoDoc
    /\ occ = <<>>
    /\ struct = {}
    /\ target = <<>>
    /\ span = NotFound

\* The text of PM_FILE
PmFile == JoinToks(T(PmFileWords))

\* data = parse_file(PM_FILE)
PmData == ParseText(PmFile).val.d

\* pms = parse_production_methods()
ParsedPms == ParseProductionMethods(PmData)

\* The files of BUILDING_DIR the classifier is run on: up to MaxBuildings
\* declarations, in one file or each in a file of its own.
InitClassify ==
    /\ \E n \in 0..MaxBuildings :
       \E names \in NameLists(n), bodies \in [1..n -> ClassifyBodies],
          split \in BOOLEAN :
            files = Layout([i \in 1..n |-> Decl(names[i], bodies[i])], split)
    /\ NotClassified

\* main up to its "Generate files" part: pms = parse_production_methods(),
\* buildings = parse_all_buildings(), then
\* qualifying, all_pm_goods = classify(buildings, pms), or its TypeError
ClassifyGameData ==
    /\ pc = "start"
    /\ pms' = ParsedPms
    /\ buildings' = ParseAllBuildings(files)
    /\ LET r == Classify(buildings', pms')
       IN  /\ pc' = IF r.err THEN "classify_raised" ELSE "classified"
           /\ qualifying' = IF r.err THEN <<>> ELSE r.qualifying
           /\ all_pm_goods' = IF r.err THEN <<>> ELSE r.all_pm_goods
    /\ UNCHANGED <<lexvars, files, outvars, hookvars, logvars>>

NextClassify == ClassifyGameData

SpecClassify == InitClassify /\ [][NextClassify]_vars

----------------------------------------------------------------------------
(* The generator run on declarations with markers and hooks: main       *)
(* classifies and writes the hook files and the init effects            *)

RECURSIVE Tabs(_)

Tabs(n) == IF n = 0 THEN <<>> ELSE <<TAB>> \o Tabs(n - 1)

\* A line of a game file: its words behind n tabs
Line(n, ws) == Tabs(n) \o Sp(ws) \o <<NL>>

ForeignParts == {<<>>, Line(1, <<"is_foreign", "=", "yes">>)}

TradeParts ==
    {<<>>, Line(1, <<"modifier", "=", "{", "local_merchant_capacity", "=", "1", "}">>)}

OnBuiltPart ==
    Line(1, <<"on_built", "=", "{">>) \o Line(2, <<"effect", "=", "yes">>)
        \o Line(1, <<"}">>)

OnDestroyedPart == Line(1, <<"on_destroyed", "=", "{">>) \o Line(1, <<"}">>)

\* No hook, on_built, on_destroyed, or both.
HookParts == {<<>>, OnBuiltPart, OnDestroyedPart, OnBuiltPart \o OnDestroyedPart}

\* A usable external template, or a usable inline one.
TemplateParts ==
    {Line(1, <<PPM, "=", "{", "x", "}">>),
     Line(1, <<UPM, "=", "{">>) \o Line(2, <<"v", "=", "{">>)
         \o Line(3, <<"category", "=", BM>>) \o Line(3, <<"stone", "=", "0.5">>)
         \o Line(2, <<"}">>) \o Line(1, <<"}">>)}

\* The bodies that qualify, and one that does not.
EmitBodies ==
    {f \o t \o h \o p : f \in ForeignParts, t \in TradeParts, h \in HookParts,
                        p \in TemplateParts}
        \cup {OnBuiltPart \o Line(1, <<PPM, "=", "{", "n", "}">>)}

EmitNames == {"b1", "b2"}

\* name = { body } on lines of its own, the first one behind indent
EmitDecl(name, body, indent) ==
    indent \o Sp(<<name, "=", "{">>) \o <<NL>> \o body \o <<"}", NL>>

\* The declarations in one file, or each in a file of its own.
EmitLayout(decls, split) ==
    IF decls = <<>> THEN <<>>
    ELSE IF split
    THEN [i \in 1..Len(decls) |-> [name |-> FileNames[i], txt |-> TRUE, text |-> decls[i]]]
    ELSE <<[name |-> FileNames[1], txt |-> TRUE, text |-> Concat(decls)]>>

\* The files of BUILDING_DIR the emitters are run on: up to MaxBuildings
\* declarations, in one file with every declaration at the start of its
\* line, in one file with the declarations indented, or a file each.
InitEmit ==
    /\ \E n \in 0..MaxBuildings :
       \E names \in [1..n -> EmitNames], bodies \in [1..n -> EmitBodies],
          layout \in {"lines", "indented", "split"} :
            files = EmitLayout(
                        [i \in 1..n |->
                            EmitDecl(names[i], bodies[i],
                                     IF layout = "indented" THEN <<TAB>> ELSE <<>>)],
                        layout = "split")
    /\ NotClassified

\* What main has loaded and classified
loaded == <<files, pms, buildings, qualifying, all_pm_goods>>

\* main: inject_code = generate_inject(qualifying, buildings), written
WriteInject ==
    /\ pc = "classified"
    /\ inject_code' = GenerateInject(qualifying, buildings)
    /\ pc' = "inject_written"
    /\ UNCHANGED <<lexvars, loaded, hookvars, logvars,
                   replace_code, io_defs, init_effects, io_biases, io_loc>>

\* main: replace_code = generate_replace(qualifying, buildings), written
WriteReplace ==
    /\ pc = "inject_written"
    /\ replace_code' = GenerateReplace(qualifying, buildings, files)
    /\ pc' = "replace_written"
    /\ UNCHANGED <<lexvars, loaded, hookvars, logvars,
                   inject_code, io_defs, init_effects, io_biases, io_loc>>

\* main: io_defs = generate_io_definitions(all_pm_goods), written
WriteIoDefinitions ==
    /\ pc = "replace_written"
    /\ io_defs' = GenerateIoDefinitions(all_pm_goods)
    /\ pc' = "io_defs_written"
    /\ UNCHANGED <<lexvars, loaded, hookvars, logvars,
                   inject_code, replace_code, init_effects, io_biases, io_loc>>

\* main: init_effects = generate_init_effects(qualifying, all_pm_goods,
\* buildings), written
WriteInitEffects ==
    /\ pc = "io_defs_written"
    /\ init_effects' = GenerateInitEffects(qualifying, all_pm_goods, buildings)
    /\ pc' = "init_effects_written"
    /\ UNCHANGED <<lexvars, loaded, hookvars, logvars,
                   inject_code, replace_code, io_defs, io_biases, io_loc>>

\* main: biases = generate_io_biases(all_pm_goods), written
WriteIoBiases ==
    /\ pc = "init_effects_written"
    /\ io_biases' = GenerateIoBiases(all_pm_goods)
    /\ pc' = "biases_written"
    /\ UNCHANGED <<lexvars, loaded, hookvars, logvars,
                   inject_code, replace_code, io_defs, init_effects, io_loc>>

\* main: loc = generate_io_localization(all_pm_goods), written
WriteIoLocalization ==
    /\ pc = "biases_written"
    /\ io_loc' = GenerateIoLocalization(all_pm_goods)
    /\ pc' = "loc_written"
    /\ UNCHANGED <<lexvars, loaded, hookvars, logvars,
                   inject_code, replace_code, io_defs, init_effects, io_biases>>

NextEmit ==
    \/ ClassifyGameData
    \/ WriteInject
    \/ WriteReplace
    \/ WriteIoDefinitions
    \/ WriteInitEffects
    \/ WriteIoBiases
    \/ WriteIoLocalization

SpecEmit == InitEmit /\ [][NextEmit]_vars

----------------------------------------------------------------------------
(* The emitters on the classifier's result given in another order *)

\* The permutations of 1..n
Perms(n) == {f \in [1..n -> 1..n] : \A i, j \in 1..n : f[i] = f[j] => i = j}

\* The same qualifying list in any order of its tuples, the same registry
\* in any insertion order of its profiles
Shuffle ==
    /\ pc = "classified"
    /\ \E f \in Perms(Len(qualifying)), g \in Perms(Len(all_pm_goods)) :
          /\ qualifying' = [i \in 1..Len(qualifying) |-> qualifying[f[i]]]
          /\ all_pm_goods' = [i \in 1..Len(all_pm_goods) |-> all_pm_goods[g[i]]]
    /\ pc' = "shuffled"
    /\ UNCHANGED <<lexvars, files, pms, buildings, outvars, hookvars, logvars>>

\* The "Generate files" part of main: the six emitters, one after another
GenerateFiles ==
    /\ pc = "shuffled"
    /\ inject_code' = GenerateInject(qualifying, buildings)
    /\ replace_code' = GenerateReplace(qualifying, buildings, files)
    /\ io_defs' = GenerateIoDefinitions(all_pm_goods)
    /\ init_effects' = GenerateInitEffects(qualifying, all_pm_goods, buildings)
    /\ io_biases' = GenerateIoBiases(all_pm_goods)
    /\ io_loc' = GenerateIoLocalization(all_pm_goods)
    /\ pc' = "generated"
    /\ UNCHANGED <<lexvars, loaded, hookvars, logvars>>

NextPermute == ClassifyGameData \/ Shuffle \/ GenerateFiles

SpecPermute == InitEmit /\ [][NextPermute]_vars

----------------------------------------------------------------------------
(* inject_on_built_hook on the span of one declaration, applied once and  *)
(* then to its own output                                                 *)

\* on_built with a block nested in it
NestedOnBuiltPart ==
    Line(1, <<"on_built", "=", "{">>)
        \o Line(2, <<"effect", "=", "{", "a", "=", "b", "}">>)
        \o Line(1, <<"}">>)

\* on_destroyed written inside on_built, on one line
HookInHookPart == Line(1, <<"on_built", "=", "{", "on_destroyed", "=", "{", "}", "}">>)

\* A hook that is commented out
CommentedHookPart == Line(1, <<HASH, "on_built", "=", "{", "}">>)

\* on_destroyed with a scalar value
ScalarHookPart == Line(1, <<"on_destroyed", "=", "none">>)

\* unique_production_methods with the inline template v
InlineTemplatePart ==
    Line(1, <<UPM, "=", "{">>) \o Line(2, <<"v", "=", "{">>)
        \o Line(3, <<"category", "=", BM>>) \o Line(3, <<"stone", "=", "0.5">>)
        \o Line(2, <<"}">>) \o Line(1, <<"}">>)

\* unique_production_methods with the inline template w, which has the
\* nested blocks potential and modifier
NestedInTemplatePart ==
    Line(1, <<UPM, "=", "{">>) \o Line(2, <<"w", "=", "{">>)
        \o Line(3, <<"potential", "=", "{">>) \o Line(3, <<"}">>)
        \o Line(3, <<"modifier", "=", "{">>) \o Line(3, <<"}">>)
        \o Line(2, <<"}">>) \o Line(1, <<"}">>)

\* unique_production_methods with the inline template u, on one line
OneLineTemplatePart ==
    Line(1, <<UPM, "=", "{", "u", "=", "{", "stone", "=", "0.5", "}", "}">>)

\* What a declaration given to inject_on_built_hook is made of
SubjectParts ==
    {OnBuiltPart, OnDestroyedPart, NestedOnBuiltPart, HookInHookPart,
     CommentedHookPart, ScalarHookPart, InlineTemplatePart,
     NestedInTemplatePart, OneLineTemplatePart,
     Line(1, <<"is_foreign", "=", "yes">>)}

\* The span read_raw_building_text returns for b1 = { body }
SubjectSpan(body) == Sp(<<"b1", "=", "{">>) \o <<NL>> \o body \o <<"}">>

\* The spans of up to MaxParts parts, with one of the two list names
InitSubject ==
    /\ \E n \in 0..MaxParts : \E parts \in [1..n -> SubjectParts] :
          subject_text = SubjectSpan(Concat(parts))
    /\ subject_list \in {ListName(TRUE), ListName(FALSE)}
    /\ patched = <<>>
    /\ applied = 0
    /\ pc = "subject"
    /\ NothingWritten
    /\ NoLog
    /\ files = <<>>
    /\ pms = <<>>
    /\ buildings = <<>>
    /\ qualifying = <<>>
    /\ all_pm_goods = <<>>
    /\ text = <<>>
    /\ toks = <<>>
    /\ tokq = <<>>
    /\ doc = NoDoc
    /\ occ = <<>>
    /\ struct = {}
    /\ target = <<>>
    /\ span = NotFound

\* modified = inject_on_built_hook(raw, bname, list_name)
PatchSubject ==
    /\ pc = "subject"
    /\ patched' = InjectOnBuiltHook(subject_text, <<"b1">>, subject_list)
    /\ applied' = 1
    /\ pc' = "patched"
    /\ UNCHANGED <<lexvars, genvars, logvars, subject_text, subject_list>>

\* inject_on_built_hook applied to the text it returned
PatchAgain ==
    /\ pc = "patched"
    /\ patched' = InjectOnBuiltHook(patched, <<"b1">>, subject_list)
    /\ applied' = 2
    /\ pc' = "patched_again"
    /\ UNCHANGED <<lexvars, genvars, logvars, subject_text, subject_list>>

NextInject == PatchSubject \/ PatchAgain

SpecInject == InitSubject /\ [][NextInject]_vars

----------------------------------------------------------------------------
(* analyze_errors.py: parse_log.  A line is the sequence of its words; the *)
(* words the patterns look for are one symbol each.                        *)

ERR == "Error:"
WARN == "Warning:"
LOC == "Script location:"

\* A timestamp and a source, [HH:MM:SS][source]:
STAMP == "[12:00:01][game]:"

\* re.search(word \s*(.+), line): the leftmost word with text after it;
\* rest is group 1, stripped
SearchRest(line, word) ==
    LET hits == {i \in 1..Len(line) : line[i] = word /\ i < Len(line)}
    IN  IF hits = {} THEN [found |-> FALSE, rest |-> <<>>]
        ELSE LET i == CHOOSE i \in hits : \A j \in hits : i <= j
             IN  [found |-> TRUE, rest |-> SubSeq(line, i + 1, Len(line))]

error_match(line) == SearchRest(line, ERR)

warning_match(line) == SearchRest(line, WARN)

debug_match(line) == SearchRest(line, STAMP)

location_match(line) == SearchRest(line, LOC)

\* The words of the noise test
NoiseWords == {"loading", "loaded", "initializing", "initialized"}

\* any(skip in msg.lower() for skip in [...])
IsNoise(msg) == \E i \in 1..Len(msg) : msg[i] \in NoiseWords

ScriptFiles == {"f1.txt", "f2.txt"}

LineNums == {":1", ":7"}

\* file_match on the message of a debug line: file, in or at, then a file
\* name, then the line number if there is one
file_match(msg) ==
    LET hits == {i \in 1..Len(msg) :
                    msg[i] \in {"file", "in", "at"} /\ i < Len(msg)
                      /\ msg[i + 1] \in ScriptFiles}
    IN  IF hits = {} THEN [found |-> FALSE, file_loc |-> "", line_num |-> ""]
        ELSE LET i == CHOOSE i \in hits : \A j \in hits : i <= j
             IN  [found |-> TRUE, file_loc |-> msg[i + 1],
                  line_num |-> IF i + 2 <= Len(msg) /\ msg[i + 2] \in LineNums
                               THEN msg[i + 2] ELSE ":?"]

\* mod_filter and mod_filter not in where
FilteredOut(filter, where) ==
    filter # None /\ \A i \in 1..Len(where) : where[i] # filter.s

\* re.sub(r':\d+$', '', current_location)
FilePath(location) ==
    IF location # <<>> /\ location[Len(location)] \in LineNums
    THEN SubSeq(location, 1, Len(location) - 1)
    ELSE location

\* messages[signature] of the defaultdict
Message(msgs, signature) ==
    IF HasKey(msgs, signature) THEN Get(msgs, signature)
    ELSE [count |-> 0, locations |-> {}, example |-> <<>>]

\* messages[signature]["count"] += 1, the locations added and the example
\* set when there is none
CountMessage(msgs, signature, locs, example) ==
    LET old == Message(msgs, signature)
    IN  SetItem(msgs, signature,
                [count |-> old.count + 1,
                 locations |-> old.locations \cup locs,
                 example |-> IF old.example = <<>> THEN example ELSE old.example])

\* The line the for loop of parse_log reads next
NextLine == log_lines[line_no + 1]

\* The loop is at a line
Reading == pc = "log" /\ line_no < Len(log_lines)

\* if error_match: current_message = "ERROR: ..."; continue
ReadError ==
    /\ Reading
    /\ error_match(NextLine).found
    /\ current_message' = Str(<<"ERROR:">> \o error_match(NextLine).rest)
    /\ current_line' = line_no + 1
    /\ line_no' = line_no + 1
    /\ UNCHANGED <<pc, lexvars, genvars, hookvars, log_lines, mod_filter,
                   messages, increments, dropped>>

\* if warning_match: current_message = "WARNING: ..."; continue
ReadWarning ==
    /\ Reading
    /\ ~error_match(NextLine).found
    /\ warning_match(NextLine).found
    /\ current_message' = Str(<<"WARNING:">> \o warning_match(NextLine).rest)
    /\ current_line' = line_no + 1
    /\ line_no' = line_no + 1
    /\ UNCHANGED <<pc, lexvars, genvars, hookvars, log_lines, mod_filter,
                   messages, increments, dropped>>

\* if debug_match: the message is noise, or names a file the filter drops,
\* or is counted under source: msg
ReadDebug ==
    /\ Reading
    /\ ~error_match(NextLine).found
    /\ ~warning_match(NextLine).found
    /\ debug_match(NextLine).found
    /\ LET msg == debug_match(NextLine).rest
           fm == file_match(msg)
           signature == <<"game:">> \o msg
       IN  IF IsNoise(msg) \/ (fm.found /\ FilteredOut(mod_filter, <<fm.file_loc>>))
           THEN UNCHANGED <<messages, increments>>
           ELSE /\ messages' =
                     CountMessage(messages, signature,
                           IF fm.found THEN {<<fm.file_loc, fm.line_num>>} ELSE {},
                           msg)
                /\ increments' =
                     Append(increments,
                            [line |-> line_no + 1, signature |-> signature, from |-> 0])
    /\ line_no' = line_no + 1
    /\ UNCHANGED <<pc, lexvars, genvars, hookvars, log_lines, mod_filter,
                   current_message, current_line, dropped>>

\* A mutant of ReadLocation: current_message is kept after the location
\* is counted or dropped.
ReadLocationKeepsMessage ==
    /\ Reading
    /\ ~error_match(NextLine).found
    /\ ~warning_match(NextLine).found
    /\ ~debug_match(NextLine).found
    /\ location_match(NextLine).found
    /\ current_message # None
    /\ LET current_location == location_match(NextLine).rest
           signature == current_message.s \o <<"@">> \o FilePath(current_location)
       IN  IF FilteredOut(mod_filter, current_location)
           THEN /\ dropped' = dropped \cup {line_no + 1}
                /\ UNCHANGED <<messages, increments>>
           ELSE /\ messages' = CountMessage(messages, signature, {current_location},
                                            current_location)
                /\ increments' =
                     Append(increments,
                            [line |-> line_no + 1, signature |-> signature,
                             from |-> current_line])
                /\ UNCHANGED dropped
    /\ line_no' = line_no + 1
    /\ UNCHANGED <<pc, lexvars, genvars, hookvars, log_lines, mod_filter,
                   current_message, current_line>>

\* if location_match and current_message: the pair is dropped by the
\* filter, or counted under message @ file; current_message = None
ReadLocation ==
    /\ Reading
    /\ ~error_match(NextLine).found
    /\ ~warning_match(NextLine).found
    /\ ~debug_match(NextLine).found
    /\ location_match(NextLine).found
    /\ current_message # None
    /\ LET current_location == location_match(NextLine).rest
           signature == current_message.s \o <<"@">> \o FilePath(current_location)
       IN  IF FilteredOut(mod_filter, current_location)
           THEN /\ dropped' = dropped \cup {line_no + 1}
                /\ UNCHANGED <<messages, increments>>
           ELSE /\ messages' = CountMessage(messages, signature, {current_location},
                                     current_location)
                /\ increments' =
                     Append(increments,
                            [line |-> line_no + 1, signature |-> signature,
                             from |-> current_line])
                /\ UNCHANGED dropped
    /\ current_message' = None
    /\ current_line' = 0
    /\ line_no' = line_no + 1
    /\ UNCHANGED <<pc, lexvars, genvars, hookvars, log_lines, mod_filter>>

\* No pattern matched, or a location with no current_message
ReadOther ==
    /\ Reading
    /\ ~error_match(NextLine).found
    /\ ~warning_match(NextLine).found
    /\ ~debug_match(NextLine).found
    /\ ~(location_match(NextLine).found /\ current_message # None)
    /\ line_no' = line_no + 1
    /\ UNCHANGED <<pc, lexvars, genvars, hookvars, log_lines, mod_filter,
                   current_message, messages, current_line, increments, dropped>>

\* return messages
ReturnMessages ==
    /\ pc = "log"
    /\ line_no = Len(log_lines)
    /\ pc' = "returned"
    /\ UNCHANGED <<lexvars, genvars, hookvars, logvars>>

\* The lines of the logs: messages, locations in two files, timestamped
\* lines, lines on which two patterns match, and lines that match none
LogLines ==
    {<<ERR, "m1">>, <<ERR, "m2">>, <<WARN, "m1">>,
     <<LOC, "f1.txt", ":1">>, <<LOC, "f1.txt", ":7">>, <<LOC, "f2.txt", ":7">>,
     <<STAMP, "hello">>, <<STAMP, "loading", "map">>,
     <<STAMP, "bad", "key", "in", "f1.txt", ":1">>,
     <<STAMP, LOC, "f1.txt", ":1">>,
     <<ERR, "m1", LOC, "f1.txt", ":1">>,
     <<ERR>>,
     <<"hello">>}

\* The logs of up to MaxLog lines, read with or without a mod filter
InitLog ==
    /\ log_lines \in UNION {[1..n -> LogLines] : n \in 0..MaxLog}
    /\ mod_filter \in {None, Str("f1.txt")}
    /\ line_no = 0
    /\ current_message = None
    /\ messages = <<>>
    /\ current_line = 0
    /\ increments = <<>>
    /\ dropped = {}
    /\ pc = "log"
    /\ NothingWritten
    /\ NotPatched
    /\ files = <<>>
    /\ pms = <<>>
    /\ buildings = <<>>
    /\ qualifying = <<>>
    /\ all_pm_goods = <<>>
    /\ text = <<>>
    /\ toks = <<>>
    /\ tokq = <<>>
    /\ doc = NoDoc
    /\ occ = <<>>
    /\ struct = {}
    /\ target = <<>>
    /\ span = NotFound

NextLog ==
    ReadError \/ ReadWarning \/ ReadDebug \/ ReadLocation \/ ReadOther
        \/ ReturnMessages

SpecLog == InitLog /\ [][NextLog]_vars

----------------------------------------------------------------------------
(* Claims about the block parser *)

\* The values stored under key, in the order the parser stored them.
OccVals(oc, key) ==
    LET sel == SelectSeq(oc, LAMBDA e : e.k = key)
    IN  [i \in 1..Len(sel) |-> sel[i].v]

\* One scope: every key stored is a key of the document exactly once; a key
\* stored once maps to that bare value, a key stored n >= 2 times maps to
\* the list of its n values in the order of occurrence.
ScopePromoted(d, oc) ==
    /\ {d[i].k : i \in 1..Len(d)} = {oc[i].k : i \in 1..Len(oc)}
    /\ \A i, j \in 1..Len(d) : d[i].k = d[j].k => i = j
    /\ \A i \in 1..Len(d) :
          LET vs == OccVals(oc, d[i].k)
          IN  IF Len(vs) = 1
              THEN d[i].v = vs[1] /\ d[i].v.t # "list"
              ELSE d[i].v = List(vs)

RECURSIVE AllScopesPromoted(_, _)

\* The scope and every block nested in it.
AllScopesPromoted(d, oc) ==
    /\ ScopePromoted(d, oc)
    /\ \A i \in 1..Len(oc) :
          oc[i].v.t = "dict" => AllScopesPromoted(oc[i].v.d, oc[i].v.occ)

\* C1: duplicate-key promotion.  In every document the parser returns, top
\* level and nested, a key that occurs once at a nesting level maps to a
\* single bare value and a key that occurs n >= 2 times maps to one list of
\* exactly its n values in first-to-last order, for any mix of scalar, flag
\* and block occurrences.
C1_DuplicateKeyPromotion ==
    pc = "parsed" => AllScopesPromoted(doc, occ)

\* A document in which one key occurred three times with values of at
\* least two kinds, and a second key once.
C1_Witness ==
    /\ pc = "parsed"
    /\ \E i \in 1..Len(doc) :
          /\ doc[i].v.t = "list"
          /\ Len(doc[i].v.l) = 3
          /\ \E m, n \in 1..3 : doc[i].v.l[m].t # doc[i].v.l[n].t
    /\ \E i \in 1..Len(doc) : doc[i].v.t # "list"

\* C2: the parser is total on structural anomalies.  For every token
\* sequence, including unbalanced braces and a key followed by '=' with no
\* further token, parse_file returns a Document and does not raise.
C2_ParserTotal ==
    pc # "raised"

----------------------------------------------------------------------------
(* Claims about the tokenizer *)

\* The index of the first '#' of the text, 0 when it has none.
FirstHash(s) ==
    LET hs == {i \in 1..Len(s) : s[i] = HASH}
    IN  IF hs = {} THEN 0 ELSE CHOOSE i \in hs : \A j \in hs : i <= j

RECURSIVE ActiveQuote(_, _, _)

\* Scanning from i a text with no '#' before h: the index of the opening
\* '"' of the quoted string h lies in (the string runs to the next
\* unescaped '"', a backslash escaping the character after it), 0 when h
\* lies outside every quoted string.
ActiveQuote(s, i, h) ==
    IF i >= h THEN 0
    ELSE IF s[i] = Q
    THEN LET j == QuoteEnd(s, i + 1)
         IN  IF h < j THEN i ELSE ActiveQuote(s, j + 1, h)
    ELSE ActiveQuote(s, i + 1, h)

\* C3: a '#' inside an active quoted string is never a comment start.  When
\* the first '#' of the text lies inside a quoted string, tokenize returns
\* that string's full text, the '#' and everything up to the closing quote
\* included (stated for the strings that have a closing quote).
C3_HashInQuoteKept ==
    pc # "text" =>
        LET h == FirstHash(text)
            q == IF h = 0 THEN 0 ELSE ActiveQuote(text, 1, h)
        IN  (q # 0 /\ QuoteEnd(text, q + 1) <= Len(text)) =>
                \E i \in 1..Len(toks) :
                    toks[i] = Slice(text, q + 1, QuoteEnd(text, q + 1))

\* C4: a QuotedString token is never read as OpenBrace, CloseBrace or
\* Equals.  In a parse that returned, no token the parser read as '=', '{'
\* or '}' came from a quoted string.
C4_QuotedNeverStructural ==
    pc \in {"parsed", "located"} =>
        \A i \in struct : ~tokq[i]

----------------------------------------------------------------------------
(* Claims about the locator *)

Count(s, ch) == Cardinality({i \in 1..Len(s) : s[i] = ch})

\* The number of '{' less the number of '}' in s[a..b].
RunDepth(s, a, b) ==
    Cardinality({i \in a..b : s[i] = "{"}) - Cardinality({i \in a..b : s[i] = "}"})

NoBraceInQuotes ==
    \A i \in 1..Len(toks) :
        tokq[i] => \A j \in 1..Len(toks[i]) : toks[i][j] \notin {"{", "}"}

ProperlyNested(s) ==
    /\ RunDepth(s, 1, Len(s)) = 0
    /\ \A i \in 1..Len(s) : RunDepth(s, 1, i) >= 0

\* name, blanks, '=', blanks, '{' written from p on, p the start of a line.
DeclaredAt(s, p, name) ==
    /\ p = 1 \/ s[p - 1] = NL
    /\ p + Len(name) - 1 <= Len(s)
    /\ SubSeq(s, p, p + Len(name) - 1) = name
    /\ \E e, b \in (p + Len(name))..Len(s) :
          /\ \A i \in (p + Len(name))..(e - 1) : s[i] \in Blank
          /\ s[e] = "="
          /\ b > e
          /\ \A i \in (e + 1)..(b - 1) : s[i] \in Blank
          /\ s[b] = "{"

\* The top-level name is a bare word and its value is a block, or a list
\* holding one.
IsBlockName(name) ==
    LET v == Get(doc, name)
    IN  /\ name # <<>>
        /\ \A i \in 1..Len(name) : name[i] \notin (Blank \cup {"{", "}", "=", Q})
        /\ \/ v.t = "dict"
           \/ v.t = "list" /\ \E i \in 1..Len(v.l) : v.l[i].t = "dict"

\* The span starts at the name, ends at a '}', and its running brace
\* depth, counted from its first '{', first returns to zero at its final
\* character and is never negative before.
SpanBalanced(s, sp, name) ==
    /\ Slice(s, sp.start, sp.start + Len(name)) = name
    /\ s[sp.end] = "}"
    /\ \E f \in sp.start..sp.end :
          /\ s[f] = "{"
          /\ \A i \in sp.start..(f - 1) : s[i] # "{"
          /\ RunDepth(s, f, sp.end) = 0
          /\ \A i \in f..(sp.end - 1) : RunDepth(s, f, i) > 0

\* C10 as claimed: for a text with equal counts of '{' and '}' and no brace
\* inside quotes, read_raw_building_text returns for every top-level block
\* name the parser found a span that starts at the name, ends at a '}', and
\* whose brace depth first returns to zero at its final character.
C10_EqualCountsLocated ==
    (/\ pc = "located"
     /\ Count(text, "{") = Count(text, "}")
     /\ NoBraceInQuotes
     /\ IsBlockName(target))
        => span.found /\ SpanBalanced(text, span, target)

\* C10 as amended: every span read_raw_building_text returns starts at the
\* name, ends at a '}', and its brace depth, counted from its first '{',
\* first returns to zero at its final character and is never negative
\* before; and it returns a span whenever the braces of the text are
\* properly nested and the declaration `name = {` begins a line.
C10_LocatedSpanBalanced ==
    pc = "located" =>
        /\ span.found => SpanBalanced(text, span, target)
        /\ (/\ ProperlyNested(text)
            /\ \E p \in 1..Len(text) : DeclaredAt(text, p, target))
               => span.found

\* A span with a block nested in it was returned.
C10_Witness ==
    /\ pc = "located"
    /\ span.found
    /\ IsBlockName(target)
    /\ ProperlyNested(text)
    /\ \E i \in (span.start)..(span.end - 1) : RunDepth(text, span.start, i) = 2

----------------------------------------------------------------------------
(* Claims about the classifier *)

\* The j-th external reference of b names a known template with a
\* non-empty cost vector, no_upkeep false and no output.
ExternalEligible(b, j) ==
    LET el == b.possible_pms[j]
    IN  /\ el.t = "str"
        /\ HasKey(pms, el.s)
        /\ Get(pms, el.s).goods # <<>>
        /\ ~Get(pms, el.s).no_upkeep
        /\ ~Get(pms, el.s).has_output

\* The j-th inline definition of b is tagged building_maintenance and has
\* a non-empty cost vector, no_upkeep false and no output.
InlineEligible(b, j) ==
    LET pm == b.unique_pms[j].v
    IN  /\ pm.is_maintenance
        /\ pm.goods # <<>>
        /\ ~pm.no_upkeep
        /\ ~pm.has_output

HasEligibleExternal(b) == \E j \in 1..Len(b.possible_pms) : ExternalEligible(b, j)

HasEligibleInline(b) == \E j \in 1..Len(b.unique_pms) : InlineEligible(b, j)

SubjectEligible(bname, b) ==
    /\ bname \notin GOVERNMENT_BUILDINGS
    /\ b.estate = None
    /\ HasEligibleExternal(b) \/ HasEligibleInline(b)

IsQualifying(bname) == \E i \in 1..Len(qualifying) : qualifying[i].bname = bname

\* C5: subject eligibility.  When classify returns, a subject is in the
\* qualifying list if and only if its name is not in GOVERNMENT_BUILDINGS,
\* it has no estate marker and it has at least one eligible external
\* reference or eligible inline definition.
C5_SubjectEligibility ==
    pc = "classified" =>
        \A i \in 1..Len(buildings) :
            IsQualifying(buildings[i].k) <=> SubjectEligible(buildings[i].k, buildings[i].v)

\* Two subjects were classified: one qualifies, the other has an eligible
\* template and is kept out by its name or its estate marker.
C5_Witness ==
    /\ pc = "classified"
    /\ \E i, j \in 1..Len(buildings) :
          /\ IsQualifying(buildings[i].k)
          /\ ~IsQualifying(buildings[j].k)
          /\ HasEligibleExternal(buildings[j].v) \/ HasEligibleInline(buildings[j].v)

\* The declared position of the first eligible external reference.
FirstExternal(b) ==
    CHOOSE j \in 1..Len(b.possible_pms) :
        ExternalEligible(b, j) /\ \A m \in 1..(j - 1) : ~ExternalEligible(b, m)

FirstInline(b) ==
    CHOOSE j \in 1..Len(b.unique_pms) :
        InlineEligible(b, j) /\ \A m \in 1..(j - 1) : ~InlineEligible(b, m)

\* C6: tie-break.  The profile of a qualifying subject is its first
\* eligible external reference in declared order, with provenance
\* external; only when no external reference is eligible is it the first
\* eligible inline definition, with provenance inline.  A subject has one
\* entry.
C6_TieBreak ==
    pc = "classified" =>
        /\ \A i \in 1..Len(qualifying) :
              LET q == qualifying[i]
                  b == Get(buildings, q.bname)
              IN  IF HasEligibleExternal(b)
                  THEN /\ q.source = "external"
                       /\ q.pm = b.possible_pms[FirstExternal(b)].s
                  ELSE /\ q.source = "inline"
                       /\ HasEligibleInline(b)
                       /\ q.pm = b.unique_pms[FirstInline(b)].k
        /\ \A i, j \in 1..Len(qualifying) :
              qualifying[i].bname = qualifying[j].bname => i = j

\* A subject whose first external reference is unusable, with two usable
\* ones after it and usable inline definitions, and a subject that
\* qualifies by its second inline definition.
C6_Witness ==
    /\ pc = "classified"
    /\ \E i \in 1..Len(qualifying) :
          LET b == Get(buildings, qualifying[i].bname)
          IN  /\ HasEligibleExternal(b)
              /\ FirstExternal(b) > 1
              /\ Cardinality({j \in 1..Len(b.possible_pms) : ExternalEligible(b, j)}) > 1
              /\ HasEligibleInline(b)
    /\ \E i \in 1..Len(qualifying) :
          LET b == Get(buildings, qualifying[i].bname)
          IN  /\ qualifying[i].source = "inline"
              /\ FirstInline(b) > 1

\* The cost vector of the template that won for the entry q.
WinningGoods(q) ==
    IF q.source = "external"
    THEN Get(pms, q.pm).goods
    ELSE Get(Get(buildings, q.bname).unique_pms, q.pm).goods

C8_ClassifierTotal ==
    /\ pc # "classify_raised"
    /\ \A i, j \in 1..Len(qualifying) :
          qualifying[i].bname = qualifying[j].bname => i = j

----------------------------------------------------------------------------
(* Claims about the emitters *)

\* The entries of qualifying whose building carries the derived flag
\* is_foreign
ForeignQualifying ==
    {i \in 1..Len(qualifying) : Get(buildings, qualifying[i].bname).is_foreign}

InitEffectsWritten == pc \in {"init_effects_written", "biases_written", "loc_written"}

IoDefinitionsWritten == pc = "io_defs_written" \/ InitEffectsWritten

ReplaceWritten == pc = "replace_written" \/ IoDefinitionsWritten

InjectWritten == pc = "inject_written" \/ ReplaceWritten

Named(lines, bname) == \E j \in 1..Len(lines) : lines[j].bname = bname

\* C9: a qualifying building with the foreign marker is tagged foreign and
\* never trade; once written, generate_inject's output has no block for
\* it, generate_replace's output has no block (and no warning) for it, and
\* epbm_init_building has no clause for it, while epbm_profiles has its
\* entry, pointing at the template that won.
C9_ForeignExclusion ==
    \A i \in ForeignQualifying :
        LET e == qualifying[i]
        IN  /\ e.is_foreign
            /\ ~e.is_trade
            /\ InjectWritten => ~Named(inject_code, e.bname)
            /\ ReplaceWritten => ~Named(replace_code, e.bname)
            /\ InitEffectsWritten =>
                   /\ ~Named(init_effects.clauses, e.bname)
                   /\ \E j \in 1..Len(init_effects.profiles) :
                          /\ init_effects.profiles[j].bname = e.bname
                          /\ init_effects.profiles[j].pm = e.pm
                          /\ init_effects.profiles[j].tag = "foreign"

\* Every file is written; a foreign building with trade capacity and both
\* hooks qualifies next to a building that is not foreign and has a block.
C9_Witness ==
    /\ InitEffectsWritten
    /\ \E i \in ForeignQualifying :
          LET b == Get(buildings, qualifying[i].bname)
          IN  b.has_trade_capacity /\ b.has_on_built /\ b.has_on_destroyed
    /\ \E i \in 1..Len(qualifying) :
          /\ i \notin ForeignQualifying
          /\ Named(inject_code, qualifying[i].bname)
               \/ Named(replace_code, qualifying[i].bname)
          /\ Named(init_effects.clauses, qualifying[i].bname)

----------------------------------------------------------------------------
(* Claims about the hook injector *)

\* The indices at which sub occurs in s.
Occurrences(s, sub) == {p \in 1..Len(s) : Slice(s, p, p + Len(sub)) = sub}

\* The index of the '}' that closes the sub-block of key, as the injector
\* locates it: the first key = { of the text, closed where the brace depth
\* counted from its '{' returns to zero.  0 when the text has none.
SubBlockClose(s, key) ==
    LET m == SearchKeyOpen(s, key)
    IN  IF m.found THEN CloseOf(s, m.end - 1) ELSE 0

\* The text has both hook sub-blocks.
HasBothHooks(s) ==
    /\ SubBlockClose(s, <<"on_built">>) # 0
    /\ SubBlockClose(s, <<"on_destroyed">>) # 0

\* No snippet of the injector is in the text.
NotYetPatched(s) ==
    \A l \in {ListName(TRUE), ListName(FALSE)} :
        Occurrences(s, AddCode(l)) = {} /\ Occurrences(s, RemoveCode(l)) = {}

\* The code, a line break and a tab, then the '}' that closes the
\* sub-block of key.
SnippetBeforeClose(s, key, code) ==
    LET c == SubBlockClose(s, key)
    IN  /\ c # 0
        /\ Slice(s, c - 2 - Len(code), c + 1) = code \o <<NL, TAB, "}">>

C18_DoubleInjection ==
    (pc = "patched_again" /\ HasBothHooks(subject_text) /\ NotYetPatched(subject_text))
        => /\ Cardinality(Occurrences(patched, AddCode(subject_list))) = 2
           /\ Cardinality(Occurrences(patched, RemoveCode(subject_list))) = 2

\* A span with both hooks was patched twice and its text grew both times.
C18_Witness ==
    /\ pc = "patched_again"
    /\ applied = 2
    /\ HasBothHooks(subject_text)
    /\ Cardinality(Occurrences(patched, AddCode(subject_list))) = 2
    /\ patched # InjectOnBuiltHook(subject_text, <<"b1">>, subject_list)

\* The span generate_replace read for the building of the entry e
RawSpanOf(bname) ==
    LET file_text == files[Get(buildings, bname).file].text
        raw == ReadRawBuildingText(file_text, bname)
    IN  IF raw.found THEN SubSeq(StripBom(file_text), raw.start, raw.end) ELSE <<>>

\* C12: the hook injector is called only on declarations with an on_built
\* sub-block.  Every span generate_replace passes to inject_on_built_hook
\* holds an on_built sub-block, so every REPLACE declaration carries the
\* tracking and the untracking snippet.
C12_InjectorOnlyWithOnBuilt ==
    ReplaceWritten =>
        \A j \in 1..Len(replace_code) :
            replace_code[j].kind = "REPLACE" =>
                LET e == replace_code[j]
                IN  /\ Get(buildings, e.bname).has_on_built
                    /\ SubBlockClose(RawSpanOf(e.bname), <<"on_built">>) # 0
                    /\ Occurrences(e.modified, AddCode(e.list_name)) # {}
                    /\ Occurrences(e.modified, RemoveCode(e.list_name)) # {}

\* The entries of a hook file that name the building.
EntriesNamed(lines, bname) == {j \in 1..Len(lines) : lines[j].bname = bname}

\* C13: emitter routing is a partition.  Every qualifying non-foreign
\* building has exactly one entry across the two hook files: an INJECT
\* block iff it has neither on_built nor on_destroyed, otherwise in the
\* REPLACE file a REPLACE block or, when the locator found nothing, a
\* WARNING line naming it.
C13_RoutingPartition ==
    ReplaceWritten =>
        \A i \in 1..Len(qualifying) :
            ~qualifying[i].is_foreign =>
                LET e == qualifying[i]
                    b == Get(buildings, e.bname)
                    inj == EntriesNamed(inject_code, e.bname)
                    rpl == EntriesNamed(replace_code, e.bname)
                IN  /\ Cardinality(inj) + Cardinality(rpl) = 1
                    /\ inj # {} <=> (~b.has_on_built /\ ~b.has_on_destroyed)
                    /\ \A j \in inj : inject_code[j].kind = "INJECT"
                    /\ \A j \in rpl :
                          replace_code[j].kind =
                              IF ReadRawBuildingText(files[b.file].text, e.bname).found
                              THEN "REPLACE" ELSE "WARNING"

\* The run went on to its last file after a locator miss: one building got
\* an INJECT block, another one, with on_destroyed alone, a WARNING line.
C13_Witness ==
    /\ pc = "loc_written"
    /\ \E j \in 1..Len(inject_code) : inject_code[j].kind = "INJECT"
    /\ \E j \in 1..Len(replace_code) :
          /\ replace_code[j].kind = "WARNING"
          /\ ~Get(buildings, replace_code[j].bname).has_on_built
          /\ ~Named(inject_code, replace_code[j].bname)

\* The names of the profile registry
RegistryKeys == {all_pm_goods[i].k : i \in 1..Len(all_pm_goods)}

\* The containers of the registered profiles
Containers == {IoName(k) : k \in RegistryKeys}

\* C14: container referential integrity.  generate_io_definitions declares
\* exactly one container epbm_pm_<name> per registered profile,
\* generate_init_effects creates exactly one per registered profile and
\* writes one epbm_profiles entry per qualifying building, foreign ones
\* included, and every container an entry refers to is declared and
\* created: the registry keys are the winning template names.
C14_ContainerIntegrity ==
    InitEffectsWritten =>
        /\ RegistryKeys = {qualifying[i].pm : i \in 1..Len(qualifying)}
        /\ Len(io_defs) = Cardinality(RegistryKeys)
        /\ {io_defs[i].io_name : i \in 1..Len(io_defs)} = Containers
        /\ Len(init_effects.ios) = Cardinality(RegistryKeys)
        /\ {init_effects.ios[i].io_type : i \in 1..Len(init_effects.ios)} = Containers
        /\ Len(init_effects.profiles) = Len(qualifying)
        /\ \A i \in 1..Len(qualifying) :
              \E j \in 1..Len(init_effects.profiles) :
                  /\ init_effects.profiles[j].bname = qualifying[i].bname
                  /\ init_effects.profiles[j].io_ref = IoName(qualifying[i].pm)
                  /\ \A m \in 1..Len(init_effects.profiles) :
                        init_effects.profiles[m].bname = qualifying[i].bname => m = j
        /\ \A j \in 1..Len(init_effects.profiles) :
              /\ \E i \in 1..Len(io_defs) :
                    io_defs[i].io_name = init_effects.profiles[j].io_ref
              /\ \E i \in 1..Len(init_effects.ios) :
                    init_effects.ios[i].io_type = init_effects.profiles[j].io_ref

\* Two qualifying buildings, one of them foreign, one with an external and
\* one with an inline profile: two containers, two lookup entries.
C14_Witness ==
    /\ InitEffectsWritten
    /\ Len(qualifying) = 2
    /\ \E i \in 1..2 : qualifying[i].is_foreign
    /\ \E i, j \in 1..2 :
          qualifying[i].source = "external" /\ qualifying[j].source = "inline"
    /\ Len(io_defs) = 2
    /\ Len(init_effects.profiles) = 2

\* What classify returned for the loaded game data
AsClassified == Classify(buildings, pms)

\* C15: emission determinism.  The emitters take buildings and profiles in
\* name order: for any order of the tuples of the qualifying list and any
\* insertion order of the registry, each of the six emitters writes what
\* it writes for the list and the registry as classify returned them.
C15_EmissionDeterminism ==
    pc = "generated" =>
        LET q == AsClassified.qualifying
            reg == AsClassified.all_pm_goods
        IN  /\ inject_code = GenerateInject(q, buildings)
            /\ replace_code = GenerateReplace(q, buildings, files)
            /\ io_defs = GenerateIoDefinitions(reg)
            /\ init_effects = GenerateInitEffects(q, reg, buildings)
            /\ io_biases = GenerateIoBiases(reg)
            /\ io_loc = GenerateIoLocalization(reg)

\* The emitters ran on a list and a registry both in another order than
\* classify's, and wrote an INJECT block, a REPLACE block and two
\* containers.
C15_Witness ==
    /\ pc = "generated"
    /\ qualifying # AsClassified.qualifying
    /\ all_pm_goods # AsClassified.all_pm_goods
    /\ Len(inject_code) = 1
    /\ Len(replace_code) = 1
    /\ Len(io_defs) = 2
    /\ Len(init_effects.clauses) = 2

\* The winning production method of the entry q has
\* category = building_maintenance: for an external one as PM_FILE
\* declares it, for an inline one as the building declares it.
WinningIsMaintenance(q) ==
    IF q.source = "external"
    THEN GetOrNone(Get(PmData, q.pm).d, W("category")) = Str(W(BM))
    ELSE Get(Get(buildings, q.bname).unique_pms, q.pm).is_maintenance

\* The record classify tested for the entry q
WinningPm(q) ==
    IF q.source = "external"
    THEN Get(pms, q.pm)
    ELSE Get(Get(buildings, q.bname).unique_pms, q.pm)

\* C16: a building qualifies only through a production method of category
\* building_maintenance.  For every entry of the qualifying list, external
\* or inline, the winning production method has category =
\* building_maintenance, a non-empty goods vector, no no_upkeep and no
\* output.
C16_MaintenanceCategoryOnly ==
    pc = "classified" =>
        \A i \in 1..Len(qualifying) :
            /\ WinningIsMaintenance(qualifying[i])
            /\ WinningPm(qualifying[i]).goods # <<>>
            /\ ~WinningPm(qualifying[i]).no_upkeep
            /\ ~WinningPm(qualifying[i]).has_output

----------------------------------------------------------------------------
(* More claims about the block parser *)

RECURSIVE FirstSeen(_)

\* The distinct keys of the occurrences, in the order each first occurs.
FirstSeen(oc) ==
    IF oc = <<>> THEN <<>>
    ELSE LET before == FirstSeen(SubSeq(oc, 1, Len(oc) - 1))
             key == oc[Len(oc)].k
         IN  IF \E i \in 1..Len(before) : before[i] = key
             THEN before
             ELSE Append(before, key)

RECURSIVE AllScopesOrdered(_, _)

\* The keys of the scope, and of every block nested in it, iterate in the
\* order of first occurrence.
AllScopesOrdered(d, oc) ==
    /\ [i \in 1..Len(d) |-> d[i].k] = FirstSeen(oc)
    /\ \A i \in 1..Len(oc) :
          oc[i].v.t = "dict" => AllScopesOrdered(oc[i].v.d, oc[i].v.occ)

\* C17: order preservation.  In every Document the parser returns, top
\* level and nested, the keys iterate in the order in which each distinct
\* key first occurs; a later duplicate never moves its key.
C17_OrderPreservation ==
    pc = "parsed" => AllScopesOrdered(doc, occ)

\* A key occurred again after another key had been stored, at top level
\* or in a nested block, and stayed first.
C17_Witness ==
    /\ pc = "parsed"
    /\ \/ /\ Len(doc) = 2
          /\ doc[1].v.t = "list"
          /\ Len(occ) = 3
          /\ occ[1].k = doc[1].k
          /\ occ[2].k = doc[2].k
          /\ occ[3].k = doc[1].k
       \/ \E n \in 1..Len(doc) :
             /\ doc[n].v.t = "dict"
             /\ Len(doc[n].v.d) = 2
             /\ doc[n].v.d[1].v.t = "list"
             /\ Len(doc[n].v.occ) = 3
             /\ doc[n].v.occ[2].k = doc[n].v.d[2].k

RECURSIVE NoCloseBraceStored(_)

\* No key and no value of the scope, or of a block nested in it, is '}'.
NoCloseBraceStored(oc) ==
    \A i \in 1..Len(oc) :
        /\ oc[i].k # RB
        /\ oc[i].v # Str(RB)
        /\ oc[i].v.t = "dict" => NoCloseBraceStored(oc[i].v.occ)

\* C19: an unmatched CloseBrace ends the scope.  In parse_block and in
\* parse_file the scope stops at the first '}' not matched inside it, the
\* '}' is consumed, and it is never stored as a key or a value of a
\* Document (the tokens of these runs are bare: a '}' is a CloseBrace).
C19_CloseBraceEndsScope ==
    pc = "parsed" =>
        /\ NoCloseBraceStored(occ)
        /\ \A i \in 1..Len(toks) :
              (toks[i] = RB /\ i \notin struct) => \A j \in 1..Len(occ) : occ[j].at < i

RECURSIVE FlagsInScope(_, _)

\* In the scope and in every block nested in it: a key is stored as a
\* Flag exactly when no '=' follows it, and the token after such a key is
\* the next key of the scope, or what ends the scope: the end of the
\* tokens, or in a block its '}'.
FlagsInScope(oc, nested) ==
    \A i \in 1..Len(oc) :
        LET at == oc[i].at
        IN  /\ toks[at] = oc[i].k
            /\ oc[i].v = Flag <=> (at = Len(toks) \/ toks[at + 1] # EQ)
            /\ oc[i].v = Flag =>
                  IF i < Len(oc) THEN oc[i + 1].at = at + 1
                  ELSE at = Len(toks) \/ (nested /\ toks[at + 1] = RB /\ at + 1 \in struct)
            /\ oc[i].v.t = "dict" => FlagsInScope(oc[i].v.occ, TRUE)

\* The number of Flag occurrences of the scope
FlagCount(oc) == Cardinality({i \in 1..Len(oc) : oc[i].v = Flag})

\* C20: flag handling.  A key not followed by '=' is stored as a Flag and
\* the token after it is read as the next key, not as its value; n bare
\* words with no '=' give n Flag occurrences and use up those n tokens.
C20_FlagHandling ==
    pc = "parsed" =>
        /\ FlagsInScope(occ, FALSE)
        /\ (\A i \in 1..Len(toks) : toks[i] # EQ) =>
              /\ Len(occ) = Len(toks)
              /\ FlagCount(occ) = Len(toks)
              /\ \A i \in 1..Len(toks) : occ[i].k = toks[i]

\* Three bare words at top level, one of them twice, gave three Flags;
\* or a block of three bare words did.
C20_Witness ==
    /\ pc = "parsed"
    /\ \/ /\ Len(toks) = 3
          /\ \A i \in 1..3 : toks[i] \notin {EQ, LB, RB}
          /\ FlagCount(occ) = 3
          /\ Len(doc) = 2
          /\ \E i \in 1..2 : doc[i].v = List(<<Flag, Flag>>)
       \/ \E n \in 1..Len(occ) :
             /\ occ[n].v.t = "dict"
             /\ FlagCount(occ[n].v.occ) = 3
             /\ \A i \in 1..3 : occ[n].v.occ[i].k \notin {EQ, LB, RB}
             /\ Len(occ[n].v.d) = 2

\* The on_destroyed sub-block the injector writes when it finds none
SynthesizedOnDestroyed(list_name) ==
    <<NL, TAB>> \o Sp(<<"on_destroyed", "=", "{">>)
        \o RemoveCode(list_name) \o <<NL, TAB, "}">> \o <<NL>>

\* The number of on_destroyed = { openings in the text
OnDestroyedOpenings(s) ==
    Cardinality({p \in 1..Len(s) : KeyOpenEnd(s, p, <<"on_destroyed">>) # 0})

\* C21: post-destroy synthesis.  For a not-yet-patched span, when it has
\* no on_destroyed sub-block the returned text ends with one new
\* on_destroyed sub-block holding only the untracking snippet, right before
\* the span's final closing brace; when it has one, the untracking snippet
\* is right before that sub-block's closing brace and no sub-block is
\* added.  Either way the returned text has exactly one untracking snippet.
C21_PostDestroySynthesis ==
    (pc = "patched" /\ NotYetPatched(subject_text)) =>
        /\ Cardinality(Occurrences(patched, RemoveCode(subject_list))) = 1
        /\ IF SubBlockClose(subject_text, <<"on_destroyed">>) = 0
           THEN /\ OnDestroyedOpenings(patched) = OnDestroyedOpenings(subject_text) + 1
                /\ LET tail == SynthesizedOnDestroyed(subject_list) \o <<"}">>
                   IN  Slice(patched, Len(patched) + 1 - Len(tail), Len(patched) + 1) = tail
           ELSE /\ OnDestroyedOpenings(patched) = OnDestroyedOpenings(subject_text)
                /\ SnippetBeforeClose(patched, <<"on_destroyed">>, RemoveCode(subject_list))

\* The positions of the inline template identifiers of the span: the keys
\* of the blocks defined directly in the unique_production_methods
\* sub-block, the meta keys aside.
TemplateNamePositions(s) ==
    LET m == SearchKeyOpen(s, <<UPM>>)
        close == SubBlockClose(s, <<UPM>>)
    IN  {p \in 1..Len(s) :
            /\ m.found /\ close # 0
            /\ m.end <= p /\ p < close
            /\ WordChar(s[p])
            /\ KeyOpenEnd(s, p, <<s[p]>>) # 0
            /\ RunDepth(s, m.end - 1, p - 1) = 1
            /\ <<s[p]>> \notin KeptNames}

RECURSIVE PrefixAt(_, _, _)

\* s from i on, with epbm_ put in front of the names at the positions P
PrefixAt(s, P, i) ==
    IF i > Len(s) THEN <<>>
    ELSE (IF i \in P THEN <<"epbm_", s[i]>> ELSE <<s[i]>>) \o PrefixAt(s, P, i + 1)

\* C22: inline-template renaming.  For a span with a
\* unique_production_methods sub-block the renaming step of
\* inject_on_built_hook prefixes with epbm_ every template identifier
\* defined directly in that sub-block and changes nothing else: the
\* container key, the meta keys, the keys of blocks nested in a template
\* and the text outside the sub-block are as they were.
C22_InlineTemplateRenaming ==
    (pc = "patched" /\ SubBlockClose(subject_text, <<UPM>>) # 0) =>
        LET renamed == PrefixAt(subject_text, TemplateNamePositions(subject_text), 1)
        IN  /\ RenameInlinePms(subject_text) = renamed
            /\ patched = AddOnDestroyed(
                             SpliceIntoBlock(renamed, <<"on_built">>, AddCode(subject_list)),
                             subject_list)

\* What inject_on_built_hook puts into a text: a snippet with the line
\* break and tab written after it, a whole on_destroyed sub-block, the
\* prefix of a template name
InsertedPieces(list_name) ==
    {AddCode(list_name) \o <<NL, TAB>>, RemoveCode(list_name) \o <<NL, TAB>>,
     SynthesizedOnDestroyed(list_name), <<"epbm_">>}

RECURSIVE GivesBack(_, _, _, _, _)

\* out from i on is orig from j on with inserted pieces between its
\* characters: deleting them gives back orig, character for character.
\* The characters up to the next place k where a piece may start are
\* compared at once; at k the piece is deleted, or the character is taken
\* as one of orig.
GivesBack(out, i, orig, j, pieces) ==
    LET starts == {k \in i..Len(out) :
                      \E pc_ \in pieces :
                          out[k] = pc_[1] /\ Slice(out, k, k + Len(pc_)) = pc_}
        k == IF starts = {} THEN Len(out) + 1
             ELSE CHOOSE k \in starts : \A r \in starts : k <= r
        j2 == j + (k - i)
    IN  IF Slice(out, i, k) # Slice(orig, j, j2) THEN FALSE
        ELSE IF k > Len(out) THEN j2 > Len(orig)
        ELSE \/ \E pc_ \in pieces :
                   /\ Slice(out, k, k + Len(pc_)) = pc_
                   /\ GivesBack(out, k + Len(pc_), orig, j2, pieces)
             \/ /\ j2 <= Len(orig)
                /\ out[k] = orig[j2]
                /\ GivesBack(out, k + 1, orig, j2 + 1, pieces)

\* The text the last application of inject_on_built_hook was given
LastSubject ==
    IF pc = "patched_again"
    THEN InjectOnBuiltHook(subject_text, <<"b1">>, subject_list)
    ELSE subject_text

\* C25: injection only inserts and keeps braces balanced.  For a span with
\* balanced braces the text inject_on_built_hook returns has balanced
\* braces, and without the inserted snippets, the synthesized on_destroyed
\* sub-block and the added epbm_ prefixes it is the span it was given,
\* character for character.
C25_InjectionOnlyInserts ==
    (pc \in {"patched", "patched_again"} /\ ProperlyNested(LastSubject)) =>
        /\ ProperlyNested(patched)
        /\ GivesBack(patched, 1, LastSubject, 1, InsertedPieces(subject_list))

\* A span with an inline template, on_built and no on_destroyed was
\* patched: it got a prefix, a tracking snippet and a new on_destroyed.
C25_Witness ==
    /\ pc = "patched"
    /\ ProperlyNested(subject_text)
    /\ Occurrences(subject_text, InlineTemplatePart) # {}
    /\ Occurrences(patched, <<"epbm_", "v">>) # {}
    /\ Occurrences(patched, AddCode(subject_list)) # {}
    /\ Occurrences(patched, SynthesizedOnDestroyed(subject_list)) # {}
    /\ patched # subject_text

\* The entries of qualifying that are not foreign
Tracked == {i \in 1..Len(qualifying) : ~qualifying[i].is_foreign}

\* The hook blocks written for the building: its INJECT or REPLACE block
HookBlocks(bname) ==
    {inject_code[j] : j \in EntriesNamed(inject_code, bname)}
        \cup {replace_code[j] : j \in {n \in EntriesNamed(replace_code, bname) :
                                           replace_code[n].kind = "REPLACE"}}

\* C23: the init-dispatch chain.  The clauses of epbm_init_building are
\* exactly the qualifying subjects that are not foreign, in lexicographic
\* order of their names; the first clause has the keyword if and every
\* later one else_if, also when the first qualifying subject by name is
\* foreign; a clause names epbm_trade_types iff its subject is tagged
\* trade, else epbm_building_types, and this is the list named in the
\* subject's build and destroy hooks.
C23_InitDispatchChain ==
    InitEffectsWritten =>
        LET clauses == init_effects.clauses
        IN  /\ Len(clauses) = Cardinality(Tracked)
            /\ \A i \in Tracked : Cardinality(EntriesNamed(clauses, qualifying[i].bname)) = 1
            /\ \A j \in 1..Len(clauses) :
                  /\ clauses[j].keyword = IF j = 1 THEN "if" ELSE "else_if"
                  /\ \A k \in (j + 1)..Len(clauses) :
                        /\ NameLeq(clauses[j].bname, clauses[k].bname)
                        /\ clauses[j].bname # clauses[k].bname
                  /\ \E i \in Tracked :
                        /\ qualifying[i].bname = clauses[j].bname
                        /\ clauses[j].list_name =
                              IF qualifying[i].is_trade THEN "epbm_trade_types"
                              ELSE "epbm_building_types"
                  /\ \A h \in HookBlocks(clauses[j].bname) :
                        /\ h.list_name = clauses[j].list_name
                        /\ h.kind = "REPLACE" =>
                              \A l \in {"epbm_trade_types", "epbm_building_types"} \ {h.list_name} :
                                  /\ Occurrences(h.modified, AddCode(l)) = {}
                                  /\ Occurrences(h.modified, RemoveCode(l)) = {}

\* The first qualifying subject by name is foreign and the second is not:
\* the one clause, for a trade building with a REPLACE block, has the
\* keyword if.
C23_Witness ==
    /\ InitEffectsWritten
    /\ Len(qualifying) = 2
    /\ \E i, k \in 1..2 :
          /\ qualifying[i].is_foreign
          /\ ~qualifying[k].is_foreign
          /\ qualifying[k].is_trade
          /\ qualifying[i].bname # qualifying[k].bname
          /\ NameLeq(qualifying[i].bname, qualifying[k].bname)
          /\ \E h \in HookBlocks(qualifying[k].bname) : h.kind = "REPLACE"
    /\ Len(init_effects.clauses) = 1
    /\ init_effects.clauses[1].keyword = "if"
    /\ init_effects.clauses[1].list_name = "epbm_trade_types"

RECURSIVE LineEnd(_, _)

\* From i, the index of the next line break, or an index past the end
LineEnd(s, i) == IF i <= Len(s) /\ s[i] # NL THEN LineEnd(s, i + 1) ELSE i

RECURSIVE UnterminatedQuote(_, _)

\* Reading s from i by the rules of the tokenizer (a '#' outside a quoted
\* string starts a comment that runs to the end of the line; a quoted
\* string runs to the next unescaped '"'): the index of the '"' that opens
\* a string with no closing quote, 0 when every string is closed.
UnterminatedQuote(s, i) ==
    IF i > Len(s) THEN 0
    ELSE IF s[i] = HASH THEN UnterminatedQuote(s, LineEnd(s, i))
    ELSE IF s[i] = Q
    THEN LET j == QuoteEnd(s, i + 1)
         IN  IF j > Len(s) THEN i ELSE UnterminatedQuote(s, j + 1)
    ELSE UnterminatedQuote(s, i + 1)

\* Every pass of the loops of strip_comments and tokenize moves the index
\* forward, and the loop of tokenize is past the end of the stripped text
\* after at most as many passes as it has characters.
ScanAdvances(s) ==
    LET stripped == StripComments(StripBom(s))
        start == [i |-> 1, toks |-> <<>>, q |-> <<>>]
    IN  /\ \A i \in 1..Len(s) :
              StripStep(s, [i |-> i, in_quote |-> FALSE, dropping |-> FALSE,
                            out |-> <<>>]).i > i
        /\ \A i \in 1..Len(stripped) : TokStep(stripped, [start EXCEPT !.i = i]).i > i
        /\ TokLoop(stripped, start, Len(stripped)).i > Len(stripped)

\* C24: tokenizer termination.  For every text tokenize ends with a
\* finite token sequence and each scanning step moves the position forward;
\* every bare-word token is non-empty; and when the text has a quoted
\* string with no closing quote, the last token is that string's text: the
\* rest of the input from the character after its opening quote.
C24_TokenizerTermination ==
    pc = "tokens" =>
        /\ ScanAdvances(text)
        /\ Len(toks) <= Len(text)
        /\ \A k \in 1..Len(toks) : ~tokq[k] => toks[k] # <<>>
        /\ LET raw == StripBom(text)
               p == UnterminatedQuote(raw, 1)
           IN  p # 0 =>
                  /\ toks # <<>>
                  /\ tokq[Len(toks)]
                  /\ toks[Len(toks)] = Slice(raw, p + 1, Len(raw) + 1)

----------------------------------------------------------------------------
(* Claims about parse_log *)

\* The line matches the Error or the Warning pattern.
MatchesMessage(i) ==
    error_match(log_lines[i]).found \/ warning_match(log_lines[i]).found

\* The line comes to the location test of the loop and matches it: it
\* matches neither the Error, the Warning nor the timestamp pattern.
ReachesLocation(i) ==
    /\ ~MatchesMessage(i)
    /\ ~debug_match(log_lines[i]).found
    /\ location_match(log_lines[i]).found

\* The line has the word Error: or Warning: in it.
SaysMessage(i) == \E k \in 1..Len(log_lines[i]) : log_lines[i][k] \in {ERR, WARN}

\* The line has the words Script location: in it.
SaysLocation(i) == \E k \in 1..Len(log_lines[i]) : log_lines[i][k] = LOC

\* The message a message line sets
MessageOf(line) ==
    IF error_match(line).found THEN <<"ERROR:">> \o error_match(line).rest
    ELSE <<"WARNING:">> \o warning_match(line).rest

\* The counts of messages are the count += 1 steps of the run.
CountsAreIncrements ==
    /\ \A j \in 1..Len(messages) :
          messages[j].v.count =
              Cardinality({n \in 1..Len(increments) :
                              increments[n].signature = messages[j].k})
    /\ \A n \in 1..Len(increments) : HasKey(messages, increments[n].signature)

\* The pairing of message lines (IsMessage) and location lines
\* (IsLocation) in the lines read so far: a location line adds to a count
\* only if a message line came after the last location line that was
\* counted or filtered out; no message line is counted twice; the count
\* goes to the last message line before the location line, under its
\* message and the location's file; and of two message lines with no
\* location line between them the earlier is not counted.
Pairing(IsMessage(_), IsLocation(_)) ==
    LET Counted(k) == \E n \in 1..Len(increments) : increments[n].line = k
        Used(k) == IsLocation(k) /\ (Counted(k) \/ k \in dropped)
    IN  /\ CountsAreIncrements
        /\ \A n \in 1..Len(increments) :
              LET at == increments[n].line
              IN  IsLocation(at) =>
                    /\ \E e \in 1..(at - 1) :
                          /\ IsMessage(e)
                          /\ \A k \in (e + 1)..(at - 1) : ~Used(k)
                          /\ \A k \in (e + 1)..(at - 1) : ~IsMessage(k)
                          /\ increments[n].from = e
                          /\ increments[n].signature =
                                MessageOf(log_lines[e]) \o <<"@">>
                                    \o FilePath(location_match(log_lines[at]).rest)
                    /\ \A m \in 1..Len(increments) :
                          (m # n /\ IsLocation(increments[m].line))
                              => increments[m].from # increments[n].from
        /\ \A e, f \in 1..line_no :
              (e < f /\ IsMessage(e) /\ IsMessage(f)
                 /\ \A k \in (e + 1)..(f - 1) : ~IsLocation(k))
                  => \A n \in 1..Len(increments) : increments[n].from # e

\* C26, as amended: log pairing in parse_log, where a message line is a
\* line that matches the Error or the Warning pattern and a location line
\* is a line that matches the Script location pattern and neither of
\* these nor the timestamp pattern.  A location line adds to a signature
\* count only if a message line came after the last counted or filtered
\* location line; each message line is counted at most once; of two
\* message lines with no location line between them the later gets the
\* location and the earlier is not counted.
C26_LogPairing == Pairing(MatchesMessage, ReachesLocation)

\* C26, as written: the same of every line that says Error: or Warning:
\* and every line that says Script location:.
C26_LogPairingOfAnyLine == Pairing(SaysMessage, SaysLocation)

\* Two message lines and then a location line were read: the one count
\* is under the second message.
C26_Witness ==
    /\ pc = "returned"
    /\ Len(log_lines) = 3
    /\ MatchesMessage(1) /\ MatchesMessage(2) /\ ReachesLocation(3)
    /\ MessageOf(log_lines[1]) # MessageOf(log_lines[2])
    /\ Len(increments) = 1
    /\ increments[1].from = 2
    /\ Len(messages) = 1
    /\ messages[1].k = MessageOf(log_lines[2]) \o <<"@">>
                          \o FilePath(location_match(log_lines[3]).rest)
    /\ messages[1].v.count = 1

====
